---------------------------- MODULE Spec2Model ----------------------------
(***************************************************************************)
(* A model of the DICOM reader of OpenSlide (openslide-decode-dicom.c and   *)
(* the dicom-wsmis vendor driver).                                          *)
(*                                                                          *)
(* A file is a sequence of bytes.  32-bit quantities (tags, value lengths,  *)
(* the running byte counts of the readers) are pairs <<hi, lo>> of 16-bit   *)
(* halves, so that 0xFFFFFFFF and the wrap of uint32_t arithmetic are       *)
(* exact; a tag is <<group, element>>.  Stream positions and size_t values  *)
(* use the same pairs with an unbounded high half.                          *)
(*                                                                          *)
(* The recursive descent of the dataset walker is a stack of frames, one    *)
(* per active reader function; one action is one iteration of a reader's    *)
(* loop, up to the point where it calls another reader or returns.          *)
(* assert() is compiled in (the sources never define NDEBUG): a failed      *)
(* assertion ends the process, outcome "abort".                             *)
(***************************************************************************)
EXTENDS Integers, Sequences, FiniteSets, TLC

VARIABLES
  file,      \* the bytes of the file behind instance->stream
  input,     \* what the file was built from (history)
  stream,    \* [pos, eof]: file position and end-of-file indicator of the FILE
  cur_tp,    \* ds->cur_tp: the current tag path (sequence of tags)
  tps,       \* ds->tps: the tag path set [tags, ntags, nsets]
  hkind,     \* which functions ds->handle_attribute / handle_pixel_data_item are
  data,      \* ds->data: the handler's output (name list, or dicom_info)
  stack,     \* the active reader functions, innermost last
  phase,     \* where the instance is in its life
  outcome,   \* how the driver call ended
  walker,    \* "skipping": the code; "descending": the walker that never skips
  caller_tp, \* a tag_path object of the caller, built with push_tag / clear_path
  added,     \* the paths handed to add_tag_path so far (history)
  obs        \* observations of the run (history, read by the properties only)

vars ==
  <<file, input, stream, cur_tp, tps, hkind, data, stack, phase, outcome, walker,
    caller_tp, added, obs>>

---------------------------------------------------------------------------
(* 16/32-bit words                                                         *)

W16 ==
  256 * 256

\* a small natural number as a pair
B(n) ==
  <<n \div W16, n % W16>>

\* the natural number of a pair whose high half is small
Small(b) ==
  b[1] * W16 + b[2]

\* addition without wrap (off_t, size_t)
BAdd(a, b) ==
  LET lo == a[2] + b[2]
  IN  <<a[1] + b[1] + (lo \div W16), lo % W16>>

\* uint32_t addition: wraps modulo 2^32
Add32(a, b) ==
  LET s == BAdd(a, b)
  IN  <<s[1] % W16, s[2]>>

BLt(a, b) ==
  a[1] < b[1] \/ (a[1] = b[1] /\ a[2] < b[2])

BLe(a, b) ==
  a = b \/ BLt(a, b)

\* a - b for a >= b
BSub(a, b) ==
  IF a[2] >= b[2] THEN <<a[1] - b[1], a[2] - b[2]>>
  ELSE <<a[1] - b[1] - 1, a[2] + W16 - b[2]>>

BMin(a, b) ==
  IF BLt(a, b) THEN a ELSE b

Zero == <<0, 0>>

\* (uint32_t)-1, the undefined length
UndefLen == <<65535, 65535>>

---------------------------------------------------------------------------
(* The FILE: fread, fseeko, ftello, feof                                   *)

FileSize == Len(file)

\* bytes left between the position and the end of the file
Avail(s) ==
  IF BLt(s.pos, B(FileSize)) THEN FileSize - Small(s.pos) ELSE 0

\* the n bytes at the position (call only when Avail(s) >= n)
Bytes(s, n) ==
  SubSeq(file, Small(s.pos) + 1, Small(s.pos) + n)

\* fread of n bytes: the position moves over what was there to read, a short
\* read raises the end-of-file indicator
BFread(s, n) ==
  LET Got(got) ==
        [pos |-> BAdd(s.pos, B(got)), eof |-> s.eof \/ B(got) # n, got |-> got]
  IN  Got(IF BLe(n, B(Avail(s))) THEN Small(n) ELSE Avail(s))

Fread(s, n) ==
  BFread(s, B(n))

Strm(r) ==
  [pos |-> r.pos, eof |-> r.eof]

\* an fseeko that leaves the position where it was
Fseeko_nowhere(s, off) ==
  [pos |-> s.pos, eof |-> FALSE]

\* fseeko(stream, off, SEEK_CUR): past the end is allowed, the indicator is cleared
Fseeko(s, off) ==
  [pos |-> BAdd(s.pos, off), eof |-> FALSE]

\* fseeko(stream, off, SEEK_SET)
FseekSet(s, off) ==
  [pos |-> off, eof |-> FALSE]

U16(bs) ==
  bs[1] + 256 * bs[2]

\* little-endian host: SWAP_TAG combines the two 16-bit words read
TagOf(bs) ==
  <<U16(SubSeq(bs, 1, 2)), U16(SubSeq(bs, 3, 4))>>

\* little-endian host: SWAP_VL is empty
VlOf(bs) ==
  <<U16(SubSeq(bs, 3, 4)), U16(SubSeq(bs, 1, 2))>>

---------------------------------------------------------------------------
(* Value representations and data elements                                 *)

Chr(c) ==
  CASE c = "A" -> 65 [] c = "B" -> 66 [] c = "C" -> 67 [] c = "D" -> 68
    [] c = "E" -> 69 [] c = "F" -> 70 [] c = "H" -> 72 [] c = "I" -> 73
    [] c = "L" -> 76 [] c = "M" -> 77 [] c = "N" -> 78 [] c = "O" -> 79
    [] c = "P" -> 80 [] c = "Q" -> 81 [] c = "R" -> 82
    [] c = "S" -> 83 [] c = "T" -> 84 [] c = "U" -> 85 [] c = "W" -> 87
    [] c = "Z" -> 90

VR(a, b) ==
  <<Chr(a), Chr(b)>>

E_INVALID == <<0, 0>>
E_SQ == VR("S", "Q")
E_OB == VR("O", "B")
E_OW == VR("O", "W")
E_UN == VR("U", "N")
E_UL == VR("U", "L")

ShortVRs ==
  { VR("A","E"), VR("A","S"), VR("A","T"), VR("C","S"), VR("D","A"),
    VR("D","S"), VR("D","T"), VR("F","D"), VR("F","L"), VR("I","S"),
    VR("L","O"), VR("L","T"), VR("P","N"), VR("S","H"), VR("S","L"),
    VR("S","S"), VR("S","T"), VR("T","M"), VR("U","I"), VR("U","L"),
    VR("U","S") }

isvr_valid(vr) ==
  /\ vr[1] >= Chr("A") /\ vr[1] <= Chr("Z")
  /\ vr[2] >= Chr("A") /\ vr[2] <= Chr("Z")

\* the long form only for the seven VRs the switch lists as 32 bits
isvr32_listed(vr) ==
  vr \in { VR("O","B"), VR("O","D"), VR("O","F"), VR("O","W"), VR("S","Q"),
           VR("U","N"), VR("U","T") }

isvr32(vr) ==
  vr \notin ShortVRs

ItemTag == <<65534, 57344>>        \* (FFFE,E000)
ItemEndTag == <<65534, 57357>>     \* (FFFE,E00D)
SqEndTag == <<65534, 57565>>       \* (FFFE,E0DD)
PixelDataTag == <<32736, 16>>      \* (7FE0,0010)

\* the tags the drivers register, and two more
DirRecSeq == <<4, 4640>>        \* (0004,1220)
RefFileID == <<4, 5376>>        \* (0004,1500)
CodeValue == <<8, 256>>         \* (0008,0100)
RefSeq == <<8, 4384>>           \* (0008,1120)
StudyUID == <<32, 13>>          \* (0020,000D)
LensesSeq == <<34, 25>>         \* (0022,0019)
NFrames == <<40, 8>>            \* (0028,0008)
Rows == <<40, 16>>              \* (0028,0010)
Columns == <<40, 17>>           \* (0028,0011)
TotalCols == <<72, 6>>          \* (0048,0006)
TotalRows == <<72, 7>>          \* (0048,0007)
OpticalSeq == <<72, 261>>       \* (0048,0105)

\* data_element de = { 0 }
De0 == [tag |-> Zero, vr |-> E_INVALID, vl |-> Zero]

tag_is_lower(de, tag) ==
  BLt(de.tag, tag)

is_start(de) ==
  de.tag = ItemTag

\* the predicates below hold an assert: "abort" is the failed assertion

is_end_item(de) ==
  IF de.tag = ItemEndTag
  THEN (IF de.vl = Zero THEN "true" ELSE "abort")
  ELSE "false"

is_end_sq(de) ==
  IF de.tag = SqEndTag
  THEN (IF de.vl = Zero THEN "true" ELSE "abort")
  ELSE "false"

is_encapsulated_pixel_data(de) ==
  IF de.tag = PixelDataTag
  THEN (IF de.vl = UndefLen /\ de.vr \in {E_OB, E_OW} THEN "true" ELSE "abort")
  ELSE "false"

is_undef_len_unasserted(de) ==
  IF de.vl = UndefLen THEN "true" ELSE "false"

is_undef_len(de) ==
  IF de.vl = UndefLen
  THEN (IF de.vr = E_SQ THEN "true"
        ELSE IF is_encapsulated_pixel_data(de) = "abort" THEN "abort"
        ELSE IF is_encapsulated_pixel_data(de) = "true" \/ is_start(de)
             THEN "true" ELSE "abort")
  ELSE "false"

\* call only when is_undef_len(de) = "false"
compute_len(de) ==
  IF isvr32(de.vr) THEN Add32(B(12), de.vl) ELSE Add32(B(8), de.vl)

\* call only when is_undef_len(de) = "true" and len # UndefLen
compute_undef_len(de, len) ==
  Add32(B(12), len)

---------------------------------------------------------------------------
(* The primitive element readers.  Each returns                            *)
(*   [ret, de, s]: ret is "true", "false" or "abort" (the order assertion), *)
(*   de the caller's data element (unchanged unless ret = "true"),         *)
(*   s the stream afterwards.                                              *)

Ret(ret, de, s) ==
  [ret |-> ret, de |-> de, s |-> s]

\* VR, 16-bit word and (long form) 32-bit VL after a tag t
ReadVrVl(de, t, s) ==
  LET Long(vr, s3, r4) ==
        IF r4.got # 4 THEN Ret("false", de, Strm(r4))
        ELSE Ret("true", [tag |-> t, vr |-> vr, vl |-> VlOf(Bytes(s3, 4))], Strm(r4))
      AfterVl(vr, s2, r3) ==
        IF r3.got # 2 THEN Ret("false", de, Strm(r3))
        ELSE IF isvr32(vr)
             THEN (IF U16(Bytes(s2, 2)) # 0 THEN Ret("false", de, Strm(r3))
                   ELSE Long(vr, Strm(r3), Fread(Strm(r3), 4)))
             ELSE Ret("true", [tag |-> t, vr |-> vr, vl |-> <<0, U16(Bytes(s2, 2))>>],
                      Strm(r3))
      AfterVr(vr, r2) ==
        IF r2.got # 2 THEN Ret("false", de, Strm(r2))
        ELSE IF ~isvr_valid(vr) THEN Ret("false", de, Strm(r2))
        ELSE AfterVl(vr, Strm(r2), Fread(Strm(r2), 2))
  IN  AfterVr(Bytes(s, 2), Fread(s, 2))

\* read_explicit without its assertion on the order of the tags
read_explicit_unordered(de, s) ==
  LET AfterTag(t, r1) ==
        IF r1.got # 4 THEN Ret("false", de, Strm(r1))
        ELSE ReadVrVl(de, t, Strm(r1))
  IN  AfterTag(TagOf(Bytes(s, 4)), Fread(s, 4))

read_explicit(de, s) ==
  LET AfterTag(t, r1) ==
        IF r1.got # 4 THEN Ret("false", de, Strm(r1))
        ELSE IF ~tag_is_lower(de, t) THEN Ret("abort", de, Strm(r1))
        ELSE ReadVrVl(de, t, Strm(r1))
  IN  AfterTag(TagOf(Bytes(s, 4)), Fread(s, 4))

read_explicit_undef(de, s) ==
  LET EndItem(t, s1, r2) ==
        IF r2.got # 4 THEN Ret("false", de, Strm(r2))
        ELSE IF VlOf(Bytes(s1, 4)) # Zero THEN Ret("false", de, Strm(r2))
        ELSE Ret("true", [tag |-> t, vr |-> E_INVALID, vl |-> Zero], Strm(r2))
      AfterTag(t, r1) ==
        IF r1.got # 4 THEN Ret("false", de, Strm(r1))
        ELSE IF ~tag_is_lower(de, t) THEN Ret("abort", de, Strm(r1))
        ELSE IF t = ItemEndTag THEN EndItem(t, Strm(r1), Fread(Strm(r1), 4))
        ELSE IF t[1] = 65534 THEN Ret("abort", de, Strm(r1))
        ELSE ReadVrVl(de, t, Strm(r1))
  IN  AfterTag(TagOf(Bytes(s, 4)), Fread(s, 4))

read_implicit(de, s) ==
  LET AfterVl(t, s1, r2) ==
        IF r2.got # 4 THEN Ret("false", de, Strm(r2))
        ELSE Ret("true", [tag |-> t, vr |-> E_INVALID, vl |-> VlOf(Bytes(s1, 4))],
                 Strm(r2))
      AfterTag(t, r1) ==
        IF r1.got # 4 THEN Ret("false", de, Strm(r1))
        ELSE IF ~tag_is_lower(de, t) THEN Ret("abort", de, Strm(r1))
        ELSE AfterVl(t, Strm(r1), Fread(Strm(r1), 4))
  IN  AfterTag(TagOf(Bytes(s, 4)), Fread(s, 4))

---------------------------------------------------------------------------
(* Tag paths and the tag path set                                          *)
(* A tag_path is [tags, ntags]: tags holds every slot written so far (a    *)
(* slot keeps its tag after pop_tag or clear_path), ntags is the length.   *)

PathSize ==
  16

create_tag_path ==
  [tags |-> <<>>, ntags |-> 0]

clear_path(tp) ==
  [tp EXCEPT !.ntags = 0]

\* push_tag that leaves a slot written earlier as it is
push_tag_stale(tp, t) ==
  [tags |-> IF tp.ntags < Len(tp.tags) THEN tp.tags ELSE Append(tp.tags, t),
   ntags |-> tp.ntags + 1]

\* call only when tp.ntags < PathSize (otherwise assert(0))
push_tag(tp, t) ==
  [tags |-> IF tp.ntags < Len(tp.tags)
            THEN [tp.tags EXCEPT ![tp.ntags + 1] = t]
            ELSE Append(tp.tags, t),
   ntags |-> tp.ntags + 1]

\* a pop_tag that leaves the length as it is
pop_tag_kept(tp) ==
  tp

pop_tag(tp) ==
  [tp EXCEPT !.ntags = tp.ntags - 1]

last_tag(tp) ==
  tp.tags[tp.ntags]

\* the tags a path holds, root first
PathOf(tp) ==
  SubSeq(tp.tags, 1, tp.ntags)

tag_path_equal_to(tp1, tp2) ==
  /\ tp1.ntags = tp2.ntags
  /\ \A t \in 1..tp1.ntags : tp1.tags[t] = tp2.tags[t]

tag_path_match(tp1, tp2) ==
  /\ tp1.ntags >= tp2.ntags
  /\ \A t \in 1..tp2.ntags : tp1.tags[t] = tp2.tags[t]

SetSize ==
  512

SetPaths ==
  16

create_tag_path_set ==
  [tags |-> <<>>, ntags |-> <<>>, nsets |-> 0]

RECURSIVE Total(_, _)
\* the loop "total += tps->ntags[s]" over the first k paths
Total(set, k) ==
  IF k = 0 THEN 0 ELSE Total(set, k - 1) + set.ntags[k]

\* the tag_path ref that find and match build over the s-th registered path
RefPath(set, s) ==
  [tags |-> SubSeq(set.tags, Total(set, s - 1) + 1, Total(set, s - 1) + set.ntags[s]),
   ntags |-> set.ntags[s]]

\* find_tag_path comparing with tag_path_match
find_tag_path_by_match(set, tp) ==
  \E s \in 1..set.nsets : tag_path_match(RefPath(set, s), tp)

find_tag_path(set, tp) ==
  \E s \in 1..set.nsets : tag_path_equal_to(RefPath(set, s), tp)

\* match_tag_path with the arguments of tag_path_match exchanged
match_tag_path_exchanged(set, tp) ==
  \E s \in 1..set.nsets : tag_path_match(tp, RefPath(set, s))

match_tag_path(set, tp) ==
  \E s \in 1..set.nsets : tag_path_match(RefPath(set, s), tp)

\* the copy loop: the tags of tp are written at offset total of the flat array
AddWrite(set, tp) ==
  [tags |-> SubSeq(set.tags, 1, Total(set, set.nsets)) \o PathOf(tp)
              \o SubSeq(set.tags, Total(set, set.nsets) + tp.ntags + 1, Len(set.tags)),
   ntags |-> SubSeq(set.ntags, 1, set.nsets) \o <<tp.ntags>>
              \o SubSeq(set.ntags, set.nsets + 2, Len(set.ntags)),
   nsets |-> set.nsets + 1]

\* [st, set]: "abort" is a failed assertion, "overflow" a write past the end
\* of the 512-tag or of the 16-length array (undefined behaviour)
add_tag_path(set, tp) ==
  IF Total(set, set.nsets) > SetSize THEN [st |-> "abort", set |-> set]
  ELSE IF Total(set, set.nsets) + tp.ntags > SetSize \/ set.nsets >= SetPaths
       THEN [st |-> "overflow", set |-> set]
  ELSE IF ~find_tag_path(AddWrite(set, tp), tp)
       THEN [st |-> "abort", set |-> AddWrite(set, tp)]
  ELSE [st |-> "ok", set |-> AddWrite(set, tp)]

---------------------------------------------------------------------------
(* The bounded value source                                                *)

init_source(len) ==
  [max_len |-> len, cur_pos |-> Zero]

\* [src, s, b]: fread asks the stream for len bytes, cur_pos moves by llen
source_read(src, s, len) ==
  LET Go(llen, r) ==
        [src |-> [src EXCEPT !.cur_pos = BAdd(src.cur_pos, llen)],
         s |-> Strm(r),
         b |-> B(r.got) = len /\ len = llen]
  IN  Go(BMin(len, BSub(src.max_len, src.cur_pos)), BFread(s, len))

source_skip(src, s, len) ==
  LET Go(llen) ==
        IF llen # Zero
        THEN [src |-> [src EXCEPT !.cur_pos = BAdd(src.cur_pos, llen)],
              s |-> Fseeko(s, llen), b |-> TRUE]
        ELSE [src |-> src, s |-> s, b |-> TRUE]
  IN  Go(BMin(len, BSub(src.max_len, src.cur_pos)))

---------------------------------------------------------------------------
(* Observations: what the handlers were called with                        *)

NoAttr ==
  [valid |-> FALSE, sourced |-> FALSE, returned |-> FALSE, path |-> <<>>,
   tag |-> Zero, L |-> Zero, from |-> Zero, to |-> Zero]

NoRet ==
  [valid |-> FALSE, fn |-> "", entry |-> Zero, lim |-> Zero, pos |-> Zero]

NoEpd ==
  [valid |-> FALSE, items |-> 0, reps |-> 0]

\* the invocations and the outcome of an earlier walk of the same file
NoFirst ==
  [valid |-> FALSE, calls |-> <<>>, outcome |-> "none"]

Obs0 ==
  [calls |-> <<>>, attr |-> NoAttr, frags |-> <<>>, ret |-> NoRet, epd |-> NoEpd,
   first |-> NoFirst]

\* one on_attribute invocation: the path and element the handler saw, whether
\* it got a value source, where the stream stood at the call (the end of
\* the header), whether process_attribute returned and where it left the
\* stream
ObserveAttr(o, de, tp, sourced, returned, from, to) ==
  [o EXCEPT !.calls = Append(@, [path |-> PathOf(tp), tag |-> de.tag, vl |-> de.vl,
                                 sourced |-> sourced, found |-> find_tag_path(tps, tp)]),
            !.attr = [valid |-> TRUE, sourced |-> sourced, returned |-> returned,
                      path |-> PathOf(tp), tag |-> de.tag, L |-> de.vl,
                      from |-> from, to |-> to]]

---------------------------------------------------------------------------
(* Handlers                                                                *)
(* hkind "probe" is a caller-supplied pair of handlers of the shape of the *)
(* two drivers' own: on_attribute looks the path up with find_tag_path and,*)
(* when found, makes the source calls of the script held in data;          *)
(* on_pixel_fragment only takes note of the call.                          *)

AmtOf(a, L) ==
  CASE a = "less" -> (IF L = Zero THEN Zero ELSE BSub(L, B(1)))
    [] a = "all" -> L
    [] a = "more" -> BAdd(L, B(1))

RECURSIVE RunScript(_, _, _)
\* the handler's source_read / source_skip calls, in order
RunScript(src, s, ops) ==
  IF ops = <<>> THEN [src |-> src, s |-> s]
  ELSE LET Go(r) == RunScript(r.src, r.s, Tail(ops))
       IN  Go(IF Head(ops).op = "read"
              THEN source_read(src, s, AmtOf(Head(ops).amt, src.max_len))
              ELSE source_skip(src, s, AmtOf(Head(ops).amt, src.max_len)))

HRes(st, src, s, d) ==
  [st |-> st, src |-> src, s |-> s, d |-> d]

probe_attribute(de, tp, sourced, src, s, d) ==
  LET Go(r) == HRes("ok", r.src, r.s, d)
  IN  IF find_tag_path(tps, tp) /\ sourced
      THEN Go(RunScript(src, s, d))
      ELSE HRes("ok", src, s, d)

\* C strings are sequences of bytes without the terminating NUL

Min(S) ==
  CHOOSE x \in S : \A y \in S : x <= y

Max(S) ==
  CHOOSE x \in S : \A y \in S : y <= x

\* the string a buffer holds: its bytes before the first NUL
CStr(buf) ==
  LET Upto(nul) == IF nul = {} THEN buf ELSE SubSeq(buf, 1, Min(nul) - 1)
  IN  Upto({i \in DOMAIN buf : buf[i] = 0})

\* while( *p ) { if( *p == '\\' ) *p = '/'; ++p; }
Slashed(str) ==
  [i \in DOMAIN str |-> IF str[i] = 92 THEN 47 ELSE str[i]]

\* the spaces at both ends go: str moves to the first byte that is no space,
\* the NUL is written after the last one
trimwhitespace(str) ==
  LET Between(solid) ==
        IF solid = {} THEN <<>> ELSE SubSeq(str, Min(solid), Max(solid))
  IN  Between({i \in DOMAIN str : str[i] # 32})

\* the index handler: d is the list of names collected so far.  A found
\* path with no value source is a read through a null pointer ("crash").
handle_attribute1(de, tp, sourced, src, s, d) ==
  LET Read(r) ==
        IF ~r.b THEN HRes("abort", r.src, r.s, d)
        ELSE HRes("ok", r.src, r.s,
                  Append(d, trimwhitespace(Slashed(CStr(Bytes(s, Small(src.max_len)))))))
  IN  IF de.vr = E_INVALID THEN HRes("abort", src, s, d)
      ELSE IF ~find_tag_path(tps, tp) THEN HRes("ok", src, s, d)
      ELSE IF ~sourced THEN HRes("crash", src, s, d)
      ELSE IF ~BLt(src.max_len, B(127)) THEN HRes("abort", src, s, d)
      ELSE Read(source_read(src, s, src.max_len))

\* uint32_t to int
ToInt(ul) ==
  IF ul[1] >= 32768 THEN (ul[1] - W16) * W16 + ul[2] ELSE ul[1] * W16 + ul[2]

IsSpace(c) ==
  c = 32 \/ (9 <= c /\ c <= 13)

IsDigit(c) ==
  48 <= c /\ c <= 57

RECURSIVE Digits(_, _)
Digits(str, acc) ==
  IF str = <<>> \/ ~IsDigit(Head(str)) THEN acc
  ELSE Digits(Tail(str), 10 * acc + Head(str) - 48)

RECURSIVE atoi(_)
\* white space, a sign, digits up to the first byte that is none
atoi(str) ==
  IF str = <<>> THEN 0
  ELSE IF IsSpace(Head(str)) THEN atoi(Tail(str))
  ELSE IF Head(str) = 45 THEN 0 - Digits(Tail(str), 0)
  ELSE Digits(IF Head(str) = 43 THEN Tail(str) ELSE str, 0)

\* the bytes fread delivers at the position when asked for n
Got(s, n) ==
  Bytes(s, Min({n, Avail(s)}))

\* char buf[512] after source_read( s, buf, len ) and buf[len] = 0: the
\* bytes read, the NUL at len, and everywhere else what the stack held
Buf(got, len, held) ==
  [i \in 1..Max({len + 1, 4}) |->
     IF i = len + 1 THEN 0 ELSE IF i <= Len(got) THEN got[i] ELSE held]

\* strncpy( dst, src, n ) on a dst of Len(dst) >= n bytes: the string, then NULs
strncpy(dst, str, n) ==
  [i \in DOMAIN dst |->
     IF i > n THEN dst[i] ELSE IF i <= Len(str) THEN str[i] ELSE 0]

\* the level handler: d is the struct dicom_info
handle_attribute2(de, tp, sourced, src, s, d) ==
  LET Switch(r, len, buf, last) ==
        CASE last = CodeValue ->
               IF len >= 16 THEN HRes("abort", r.src, r.s, d)
               ELSE HRes("ok", r.src, r.s, [d EXCEPT !.code_value = CStr(buf)])
          [] last = StudyUID ->
               IF len > 64 THEN HRes("abort", r.src, r.s, d)
               ELSE HRes("ok", r.src, r.s,
                         [d EXCEPT !.study_instance_uid = strncpy(@, CStr(buf), len),
                                   !.study_instance_uid_len = len])
          [] last = NFrames ->
               HRes("ok", r.src, r.s, [d EXCEPT !.number_of_frames = atoi(CStr(buf))])
          [] last = Rows ->
               HRes("ok", r.src, r.s, [d EXCEPT !.rows = U16(buf)])
          [] last = Columns ->
               HRes("ok", r.src, r.s, [d EXCEPT !.columns = U16(buf)])
          [] last = TotalCols ->
               HRes("ok", r.src, r.s,
                    [d EXCEPT !.total_pixel_mat_cols = ToInt(VlOf(buf))])
          [] last = TotalRows ->
               HRes("ok", r.src, r.s,
                    [d EXCEPT !.total_pixel_mat_rows = ToInt(VlOf(buf))])
          [] OTHER -> HRes("abort", r.src, r.s, d)
      Read(len) ==
        Switch(source_read(src, s, src.max_len), len, Buf(Got(s, len), len, d.held),
               last_tag(tp))
  IN  IF de.vr = E_INVALID THEN HRes("abort", src, s, d)
      ELSE IF ~find_tag_path(tps, tp) THEN HRes("ok", src, s, d)
      ELSE IF ~sourced THEN HRes("crash", src, s, d)
      ELSE IF ~BLt(src.max_len, B(512)) THEN HRes("abort", src, s, d)
      ELSE Read(Small(src.max_len))

\* the level fragment handler: the first call allocates the tile table and
\* stores nothing, the others store at current_tile_num.  tiles.tab holds the
\* entries written, the other entries of the table are indeterminate.
handle_pdi(pos, len, d) ==
  IF d.tiles.null
  THEN (IF d.number_of_frames <= 0 THEN [st |-> "abort", d |-> d, called |-> TRUE]
        ELSE [st |-> "ok",
              d |-> [d EXCEPT !.tiles = [null |-> FALSE, tab |-> <<>>],
                              !.current_tile_num = 0],
              called |-> TRUE])
  ELSE IF d.current_tile_num >= d.number_of_frames
       THEN [st |-> "abort", d |-> d, called |-> TRUE]
  ELSE [st |-> "ok",
        d |-> [d EXCEPT !.tiles.tab = Append(@, [start_in_file |-> pos, length |-> len]),
                        !.current_tile_num = @ + 1],
        called |-> TRUE]

\* (ds->handle_attribute)(ds, de, value)
handle_attribute(de, tp, sourced, src, s, d) ==
  CASE hkind = "probe" -> probe_attribute(de, tp, sourced, src, s, d)
    [] hkind = "index" -> handle_attribute1(de, tp, sourced, src, s, d)
    [] hkind = "level" -> handle_attribute2(de, tp, sourced, src, s, d)
    [] OTHER -> HRes("ok", src, s, d)

\* if( ds->handle_pixel_data_item ) (ds->handle_pixel_data_item)(ds, pos, len)
\* [st, d, called]
handle_pixel_data_item(pos, len, d) ==
  CASE hkind = "probe" -> [st |-> "ok", d |-> d, called |-> TRUE]
    [] hkind = "level" -> handle_pdi(pos, len, d)
    [] OTHER -> [st |-> "ok", d |-> d, called |-> FALSE]

---------------------------------------------------------------------------
(* process_attribute                                                       *)

PA(st, s, d, o) ==
  [st |-> st, s |-> s, d |-> d, o |-> o]

process_attribute(de, s, tp, d, o) ==
  IF is_start(de) \/ is_end_item(de) # "false" \/ is_end_sq(de) # "false"
  THEN PA("abort", s, d, o)
  ELSE IF is_undef_len(de) = "abort" THEN PA("abort", s, d, o)
  ELSE LET Skipped(h, k) ==
             PA("ok", k.s, h.d, ObserveAttr(o, de, tp, TRUE, TRUE, s.pos, k.s.pos))
           Handled(h, sourced) ==
             IF h.st # "ok" \/ ~sourced
             THEN PA(h.st, h.s, h.d,
                     ObserveAttr(o, de, tp, sourced, h.st = "ok", s.pos, h.s.pos))
             ELSE Skipped(h, source_skip(h.src, h.s, de.vl))
       IN  IF is_undef_len(de) = "true"
           THEN Handled(handle_attribute(de, tp, FALSE, init_source(Zero), s, d), FALSE)
           ELSE Handled(handle_attribute(de, tp, TRUE, init_source(de.vl), s, d), TRUE)

\* the descent decision for a defined-length sequence or item.  The walker
\* of the code is "skipping"; "descending" is the walker it is compared
\* with, which descends into every defined-length sequence and item, those
\* met inside an item included.
Descend_always(tp) ==
  TRUE

Descend(tp) ==
  IF walker = "descending" THEN TRUE ELSE match_tag_path(tps, tp)

---------------------------------------------------------------------------
(* The dataset walker                                                      *)
(* A frame is one active call of a reader function:                        *)
(*   fn      the function                                                  *)
(*   pc      "loop": at the top of its loop; "wait": inside a call;        *)
(*           "ret": the call has returned, the rest of the body is due     *)
(*   de      its local data_element                                        *)
(*   len     its running byte count (curlen, itemlen, seqlen, epdlen)      *)
(*   lim     its length parameter (itemlen, seqlen), Zero when none        *)
(*   callee  the function it called, rv the value that call returned       *)
(*   entry   the stream position on entry              (observation)       *)
(*   seen    the tags its explicit reader delivered    (observation)       *)
(*   items, reps  Item headers read and fragments reported (observation)   *)

Frame(fn, lim, entry) ==
  [fn |-> fn, pc |-> "loop", de |-> De0, len |-> Zero, lim |-> lim,
   callee |-> "", rv |-> Zero, entry |-> entry, seen |-> <<>>,
   items |-> 0, reps |-> 0]

NoFrame ==
  Frame("", Zero, Zero)

\* the result of one step of a reader: st is "next" (go round the loop),
\* "call" (child is entered), "ret" (the function returns rv), "abort"
R(st, f, s, tp, d, o, child, rv) ==
  [st |-> st, f |-> f, s |-> s, tp |-> tp, d |-> d, o |-> o, child |-> child,
   rv |-> rv]

RAbort(f, s, tp, d, o) ==
  R("abort", f, s, tp, d, o, NoFrame, Zero)

RNext(f, s, tp, d, o) ==
  R("next", [f EXCEPT !.pc = "loop"], s, tp, d, o, NoFrame, Zero)

RCall(f, s, tp, d, o, fn, lim) ==
  R("call", [f EXCEPT !.pc = "wait", !.callee = fn], s, tp, d, o,
    Frame(fn, lim, s.pos), Zero)

RRet(f, s, tp, d, o, rv) ==
  R("ret", f, s, tp, d, o, NoFrame, rv)

\* an item body that passes over every element without processing it
ItemElement_unprocessed(f, de, s, tp, d, o, needSQ) ==
  RNext([f EXCEPT !.de = de, !.seen = Append(@, de.tag),
                  !.len = Add32(@, compute_len(de))],
        Fseeko(s, de.vl), tp, d, o)

\* the body shared by read_item_undef and read_item_def once an element
\* header is in de: push_tag, process_attribute, then the undefined-length
\* children or the length of the element, pop_tag.  needSQ is the
\* assert( de.vr == E_SQ ) that only read_item_undef makes.
ItemElement(f, de, s, tp, d, o, needSQ) ==
  LET Processed(g, tp1, pa) ==
        IF pa.st # "ok" THEN RAbort(g, pa.s, tp1, pa.d, pa.o)
        ELSE IF is_undef_len(de) = "true"
        THEN (IF is_encapsulated_pixel_data(de) = "true"
              THEN RCall(g, pa.s, tp1, pa.d, pa.o, "epd", Zero)
              ELSE IF needSQ /\ de.vr # E_SQ THEN RAbort(g, pa.s, tp1, pa.d, pa.o)
              ELSE RCall(g, pa.s, tp1, pa.d, pa.o, "sq_undef", Zero))
        ELSE RNext([g EXCEPT !.len = Add32(@, compute_len(de))],
                   pa.s, pop_tag(tp1), pa.d, pa.o)
      Pushed(g, tp1) ==
        IF tp.ntags >= PathSize THEN RAbort(g, s, tp, d, o)
        ELSE IF walker = "descending" /\ de.vr = E_SQ /\ is_undef_len(de) = "false"
        THEN RCall(g, s, tp1, d, o, "sq_def", de.vl)
        ELSE Processed(g, tp1, process_attribute(de, s, tp1, d, o))
  IN  Pushed([f EXCEPT !.de = de, !.seen = Append(@, de.tag)], push_tag(tp, de.tag))

\* after read_encapsulated_pixel_data or read_sq_undef returned f.rv
ItemResume(f, s, tp, d, o) ==
  IF f.callee = "sq_def"
  THEN RNext([f EXCEPT !.len = Add32(@, compute_len(f.de))], s, pop_tag(tp), d, o)
  ELSE IF f.rv = UndefLen THEN RAbort(f, s, tp, d, o)
  ELSE RNext([f EXCEPT !.len = Add32(@, compute_undef_len(f.de, f.rv))],
             s, pop_tag(tp), d, o)

read_item_undef(f, s, tp, d, o) ==
  LET Loop(r) ==
        IF r.ret # "true" THEN RAbort(f, r.s, tp, d, o)
        ELSE IF is_end_item(r.de) = "abort" THEN RAbort(f, r.s, tp, d, o)
        ELSE IF is_end_item(r.de) = "true"
        THEN RRet([f EXCEPT !.de = r.de, !.len = Add32(@, B(8))], r.s, tp, d, o,
                  Add32(f.len, B(8)))
        ELSE ItemElement(f, r.de, r.s, tp, d, o, TRUE)
  IN  IF f.pc = "ret" THEN ItemResume(f, s, tp, d, o)
      ELSE Loop(read_explicit_undef(f.de, s))

read_item_def(f, s, tp, d, o) ==
  LET Loop(r) ==
        IF r.ret # "true" THEN RAbort(f, r.s, tp, d, o)
        ELSE ItemElement(f, r.de, r.s, tp, d, o, FALSE)
  IN  IF f.pc = "ret" THEN ItemResume(f, s, tp, d, o)
      ELSE IF f.len = f.lim THEN RRet(f, s, tp, d, o, Zero)
      ELSE IF ~BLe(f.len, f.lim) THEN RAbort(f, s, tp, d, o)
      ELSE Loop(read_explicit(f.de, s))

\* the body shared by read_sq_undef and read_sq_def once an Item header is
\* in de
SqItem(f, de, s, tp, d, o) ==
  LET Go(g, h) ==
        IF is_undef_len(de) = "true"
        THEN RCall(g, s, tp, d, o, "item_undef", Zero)
        ELSE IF ~Descend(tp) THEN RNext(h, Fseeko(s, de.vl), tp, d, o)
        ELSE RCall(h, s, tp, d, o, "item_def", de.vl)
  IN  Go([f EXCEPT !.de = de, !.items = @ + 1],
         [f EXCEPT !.de = de, !.items = @ + 1, !.len = Add32(Add32(@, B(8)), de.vl)])

\* after read_item_undef returned f.rv, or read_item_def returned
SqResume(f, s, tp, d, o) ==
  IF f.callee = "item_undef"
  THEN RNext([f EXCEPT !.len = Add32(Add32(@, B(8)), f.rv)], s, tp, d, o)
  ELSE RNext(f, s, tp, d, o)

read_sq_undef(f, s, tp, d, o) ==
  LET Loop(r) ==
        IF r.ret # "true" THEN RAbort(f, r.s, tp, d, o)
        ELSE IF is_end_sq(r.de) = "abort" THEN RAbort(f, r.s, tp, d, o)
        ELSE IF is_end_sq(r.de) = "true"
        THEN RRet([f EXCEPT !.de = r.de, !.len = Add32(@, B(8))], r.s, tp, d, o,
                  Add32(f.len, B(8)))
        ELSE IF ~is_start(r.de) THEN RAbort(f, r.s, tp, d, o)
        ELSE SqItem(f, r.de, r.s, tp, d, o)
  IN  IF f.pc = "ret" THEN SqResume(f, s, tp, d, o)
      ELSE Loop(read_implicit([f.de EXCEPT !.tag = Zero], s))

read_sq_def(f, s, tp, d, o) ==
  LET Loop(r) ==
        IF r.ret # "true" \/ ~is_start(r.de) THEN RAbort(f, r.s, tp, d, o)
        ELSE SqItem(f, r.de, r.s, tp, d, o)
  IN  IF f.pc = "ret" THEN SqResume(f, s, tp, d, o)
      ELSE IF f.len = f.lim THEN RRet(f, s, tp, d, o, Zero)
      ELSE IF ~BLe(f.len, f.lim) THEN RAbort(f, s, tp, d, o)
      ELSE Loop(read_implicit([f.de EXCEPT !.tag = Zero], s))

read_encapsulated_pixel_data(f, s, tp, d, o) ==
  LET Reported(r, g1, h, o1) ==
        IF h.st # "ok" THEN RAbort(g1, r.s, tp, h.d, o1)
        ELSE RNext(g1, Fseeko(r.s, r.de.vl), tp, h.d, o1)
      Item(r, g, h) ==
        Reported(r,
                 [g EXCEPT !.len = Add32(@, r.de.vl), !.items = @ + 1,
                           !.reps = IF h.called THEN @ + 1 ELSE @],
                 h,
                 IF h.called
                 THEN [o EXCEPT !.frags = Append(@, [pos |-> r.s.pos, len |-> r.de.vl,
                                                     item |-> g.items + 1])]
                 ELSE o)
      Counted(r, g) ==
        IF is_end_sq(r.de) = "abort" THEN RAbort(g, r.s, tp, d, o)
        ELSE IF is_end_sq(r.de) = "true" THEN RRet(g, r.s, tp, d, o, g.len)
        ELSE IF ~is_start(r.de) THEN RAbort(g, r.s, tp, d, o)
        ELSE Item(r, g, handle_pixel_data_item(r.s.pos, r.de.vl, d))
      Loop(r) ==
        IF r.ret # "true" THEN RAbort(f, r.s, tp, d, o)
        ELSE Counted(r, [f EXCEPT !.de = r.de, !.len = Add32(@, B(8))])
  IN  Loop(read_implicit([f.de EXCEPT !.tag = Zero], s))

\* one element of the top-level loop of read_dataset
DatasetElement(f, de, s, tp, d, o) ==
  LET Processed(g, tp1, pa) ==
        IF pa.st # "ok" THEN RAbort(g, pa.s, tp1, pa.d, pa.o)
        ELSE IF is_undef_len(de) = "false" THEN RNext(g, pa.s, pop_tag(tp1), pa.d, pa.o)
        ELSE IF de.vr = E_SQ THEN RCall(g, pa.s, tp1, pa.d, pa.o, "sq_undef", Zero)
        ELSE IF is_encapsulated_pixel_data(de) # "true" \/ de.vr = E_UN
        THEN RAbort(g, pa.s, tp1, pa.d, pa.o)
        ELSE RCall(g, pa.s, tp1, pa.d, pa.o, "epd", Zero)
      Pushed(g, tp1) ==
        IF de.tag[1] = 65534 \/ de.tag[1] > 32736 THEN RAbort(g, s, tp, d, o)
        ELSE IF tp.ntags >= PathSize THEN RAbort(g, s, tp, d, o)
        ELSE IF is_undef_len(de) = "abort" THEN RAbort(g, s, tp1, d, o)
        ELSE IF is_undef_len(de) = "false" /\ de.vr = E_SQ
        THEN (IF ~Descend(tp1) THEN RNext(g, Fseeko(s, de.vl), pop_tag(tp1), d, o)
              ELSE RCall(g, s, tp1, d, o, "sq_def", de.vl))
        ELSE Processed(g, tp1, process_attribute(de, s, tp1, d, o))
  IN  Pushed([f EXCEPT !.de = de, !.seen = Append(@, de.tag)], push_tag(tp, de.tag))

read_dataset(f, s, tp, d, o) ==
  LET Loop(r) ==
        IF r.ret = "abort" THEN RAbort(f, r.s, tp, d, o)
        ELSE IF r.ret = "false"
        THEN (IF r.s.eof THEN RRet(f, r.s, tp, d, o, Zero)
              ELSE RAbort(f, r.s, tp, d, o))
        ELSE DatasetElement(f, r.de, r.s, tp, d, o)
  IN  IF f.pc = "ret" THEN RNext(f, s, pop_tag(tp), d, o)
      ELSE Loop(read_explicit(f.de, s))

---------------------------------------------------------------------------
(* Files: the byte layout of Explicit VR Little Endian                     *)

LE16(n) ==
  <<n % 256, n \div 256>>

TagB(t) ==
  LE16(t[1]) \o LE16(t[2])

VlB(v) ==
  LE16(v[2]) \o LE16(v[1])

\* a short-form element: tag(4) VR(2) VL(2) value
ElS(t, vr, val) ==
  TagB(t) \o vr \o LE16(Len(val)) \o val

\* a long-form element: tag(4) VR(2) reserved(2) VL(4) value
ElL(t, vr, vl, val) ==
  TagB(t) \o vr \o <<0, 0>> \o VlB(vl) \o val

Delim(t) ==
  TagB(t) \o VlB(Zero)

ItDef(body) ==
  TagB(ItemTag) \o VlB(B(Len(body))) \o body

ItUndef(body) ==
  TagB(ItemTag) \o VlB(UndefLen) \o body \o Delim(ItemEndTag)

SqDef(t, items) ==
  ElL(t, E_SQ, B(Len(items)), items)

SqUndef(t, items) ==
  ElL(t, E_SQ, UndefLen, items \o Delim(SqEndTag))

\* encapsulated pixel data: the fragments are defined-length items
PixUndef(frags) ==
  ElL(PixelDataTag, E_OB, UndefLen, frags \o Delim(SqEndTag))

Fill(n, c) ==
  [i \in 1..n |-> c]

\* the 128-byte preamble, "DICM", and a file meta group of length 0
FileOf(dataset) ==
  Fill(128, 0) \o <<Chr("D"), Chr("I"), Chr("C"), Chr("M")>>
    \o ElS(<<2, 0>>, E_UL, <<0, 0, 0, 0>>) \o dataset

\* the file with bytes 128..131 replaced
WithMagic(f, magic) ==
  SubSeq(f, 1, 128) \o magic \o SubSeq(f, 133, Len(f))

---------------------------------------------------------------------------
(* Bounds of the model and the files it is run on                          *)

\* source calls a probe handler makes per invocation
MaxOps ==
  1

\* fragments after the Basic Offset Table in a pixel data element
MaxFrags ==
  2

\* bytes cut from the end of a truncated file
MaxCut ==
  2

E_CS == VR("C", "S")
E_US == VR("U", "S")
E_IS == VR("I", "S")
E_UI == VR("U", "I")

Txt(n) ==
  Fill(n, Chr("A"))

RECURSIVE Frags(_)
\* n fragments of 2, 4, ... bytes
Frags(n) ==
  IF n = 0 THEN <<>> ELSE Frags(n - 1) \o ItDef(Fill(2 * n, n))

\* a Basic Offset Table item and n fragments
Pix(n) ==
  PixUndef(ItDef(<<>>) \o Frags(n))

\* two leaves
DsLeaves ==
  ElS(Rows, E_US, <<0, 2>>) \o ElS(Columns, E_US, <<0, 3>>)

\* a defined-length sequence with one defined-length item, then a leaf
DsDefSq ==
  SqDef(RefSeq, ItDef(ElS(CodeValue, E_CS, Txt(2)) \o ElS(StudyUID, E_UI, Txt(4))))
    \o ElS(Rows, E_US, <<0, 2>>)

\* an undefined-length sequence with two undefined-length items
DsUndefSq ==
  SqUndef(DirRecSeq, ItUndef(ElS(RefFileID, E_CS, Txt(4)))
                       \o ItUndef(ElS(RefFileID, E_CS, Txt(2)) \o ElS(Rows, E_US, <<1, 0>>)))

\* defined-length items holding a leaf, an undefined-length sequence and
\* a long-form leaf; a second item whose tags start again from a lower one
DsNested ==
  SqDef(DirRecSeq,
        ItDef(ElS(RefFileID, E_CS, Txt(2))
                \o SqUndef(RefSeq, ItUndef(ElS(CodeValue, E_CS, Txt(2)))
                                     \o ItDef(ElS(Rows, E_US, <<5, 0>>)))
                \o ElL(Rows, E_OB, B(2), <<7, 7>>))
          \o ItDef(ElS(RefFileID, E_CS, Txt(4))))
    \o ElS(Columns, E_US, <<0, 1>>)

\* pixel data inside an item of an undefined-length sequence, then a leaf
\* and the pixel data of the image
DsIcon(n) ==
  SqUndef(RefSeq, ItUndef(ElS(Rows, E_US, <<1, 0>>) \o Pix(1)))
    \o ElS(Rows, E_US, <<0, 2>>) \o Pix(n)

\* tags out of order inside the second item, and at the top level
DsDisorderItem ==
  SqUndef(DirRecSeq,
          ItUndef(ElS(Rows, E_US, <<1, 0>>))
            \o ItUndef(ElS(RefFileID, E_CS, Txt(2)) \o ElS(Rows, E_US, <<1, 0>>)
                         \o ElS(RefFileID, E_CS, Txt(2))))

DsDisorderTop ==
  ElS(Rows, E_US, <<0, 2>>) \o ElS(Rows, E_US, <<0, 3>>)

\* a defined-length item whose elements overrun its length
DsOverrun ==
  SqDef(DirRecSeq, TagB(ItemTag) \o VlB(B(8)) \o ElS(RefFileID, E_CS, Txt(2)))

\* a defined-length sequence inside an item of an undefined-length sequence
DsDefInItem ==
  SqUndef(DirRecSeq,
          ItUndef(ElS(RefFileID, E_CS, Txt(2))
                    \o SqDef(RefSeq, ItDef(ElS(Rows, E_US, <<5, 0>>)))))
    \o ElS(Columns, E_US, <<0, 1>>)

\* a defined-length item of length 4 holding one element whose 12-byte
\* header and length 0xFFFFFFF8 add up to 4 modulo 2^32
DsWrap ==
  SqDef(DirRecSeq,
        TagB(ItemTag) \o VlB(B(4)) \o ElL(RefFileID, E_OB, <<65535, 65528>>, <<>>))
    \o ElS(Rows, E_US, <<0, 2>>)

\* an element of undefined length with VR UN: at the top level, in an item
\* of undefined length and in an item of defined length, a leaf after each
DsUnTop ==
  ElS(Rows, E_US, <<0, 2>>) \o ElL(Columns, E_UN, UndefLen, <<>>)
    \o ElS(TotalCols, E_US, <<0, 3>>)

DsUnInItem ==
  SqUndef(DirRecSeq, ItUndef(ElL(RefFileID, E_UN, UndefLen, <<>>)
                               \o ElS(Rows, E_US, <<0, 2>>)))
    \o ElS(Columns, E_US, <<0, 1>>)

DsUnInItemDef ==
  SqDef(DirRecSeq, ItDef(ElL(RefFileID, E_UN, UndefLen, <<>>)
                           \o ElS(Rows, E_US, <<0, 2>>)))
    \o ElS(Columns, E_US, <<0, 1>>)

\* a VR the parser does not know, in the long form
DsUnknownVr ==
  ElL(Rows, VR("Z", "Z"), B(2), <<7, 7>>) \o ElS(Columns, E_US, <<0, 1>>)

\* VR bytes that are no uppercase letters ("ob")
DsBadVr ==
  ElS(Rows, E_US, <<0, 2>>) \o ElL(Columns, <<111, 98>>, B(2), <<7, 7>>)

\* a long-form header whose reserved word is 1
DsReserved ==
  ElS(Rows, E_US, <<0, 2>>) \o TagB(Columns) \o E_OB \o <<1, 0>> \o VlB(B(2))
    \o <<7, 7>>

\* bytes of the last header left in a file that ends inside it
HeaderCuts ==
  {1, 4, 6, 7}

\* an item of undefined length with one byte between the value of its
\* element and its delimiter
DsPadded ==
  SqUndef(DirRecSeq, ItUndef(ElS(RefFileID, E_CS, Txt(2)) \o <<0>>))
    \o ElS(Rows, E_US, <<0, 2>>)

RECURSIVE DsDeep(_)
\* a leaf inside n undefined-length sequences, one inside the other
DsDeep(n) ==
  IF n = 0 THEN ElS(Rows, E_US, <<0, 2>>)
  ELSE SqUndef(RefSeq, ItUndef(DsDeep(n - 1)))

ProbeDatasets ==
  { DsLeaves, DsDefSq, DsUndefSq, DsNested, DsDefInItem, DsDisorderItem,
    DsDisorderTop, DsOverrun, DsWrap, DsUnTop, DsUnInItem, DsUnInItemDef,
    DsUnknownVr, DsBadVr, DsReserved, DsPadded, DsDeep(PathSize - 1),
    DsDeep(PathSize) }
    \cup { DsIcon(n) : n \in 0..MaxFrags }
    \cup { Pix(n) : n \in 0..MaxFrags }
    \cup { PixUndef(<<>>) }

Cut(f, k) ==
  SubSeq(f, 1, Len(f) - k)

ProbeFiles ==
  { FileOf(ds) : ds \in ProbeDatasets }
    \cup { Cut(FileOf(ds), k) : ds \in {DsLeaves, DsNested}, k \in 1..MaxCut }
    \cup { Cut(FileOf(DsLeaves), 10 - k) : k \in HeaderCuts }

\* the path sets a caller of the probe registers
ProbePathSets ==
  { <<>>,
    << <<DirRecSeq, RefFileID>>, <<Rows>> >>,
    << <<RefSeq, CodeValue>>, <<DirRecSeq, RefSeq, Rows>>, <<Columns>> >> }

ScriptOps ==
  [op : {"read", "skip"}, amt : {"less", "all", "more"}]

Scripts ==
  UNION { [1..n -> ScriptOps] : n \in 0..MaxOps }

\* directory records per index file
MaxVals ==
  2

\* Referenced File ID values: plain, with a backslash and a trailing space,
\* with a leading space, and of 126, 127 and 128 bytes
IndexValues ==
  { Txt(2), <<Chr("A"), 92, Chr("B"), 32>>, <<32, Chr("A")>>, Txt(126), Txt(127),
    Txt(128) }

\* "DICM" and what the files that are no DICOM files have in its place
Dicm ==
  <<Chr("D"), Chr("I"), Chr("C"), Chr("M")>>

Dicx ==
  <<Chr("D"), Chr("I"), Chr("C"), 88>>

IndexCases ==
  [kind : {"index"},
   vals : UNION { [1..n -> IndexValues] : n \in 0..MaxVals },
   def : BOOLEAN,
   pix : BOOLEAN,
   magic : {Dicm, Dicx}]

RECURSIVE Records(_, _)
\* one item per value: a record type and the Referenced File ID
Records(vals, def) ==
  IF vals = <<>> THEN <<>>
  ELSE (IF def
        THEN ItDef(ElS(<<4, 5168>>, E_CS, Txt(2)) \o ElS(RefFileID, E_CS, Head(vals)))
        ELSE ItUndef(ElS(<<4, 5168>>, E_CS, Txt(2)) \o ElS(RefFileID, E_CS, Head(vals))))
         \o Records(Tail(vals), def)

\* a directory: the record sequence, a Referenced File ID outside of it and
\* other elements
IndexFile(c) ==
  WithMagic(FileOf((IF c.def THEN SqDef(DirRecSeq, Records(c.vals, TRUE))
                    ELSE SqUndef(DirRecSeq, Records(c.vals, FALSE)))
                     \o ElS(RefFileID, E_CS, Txt(4))
                     \o ElS(Rows, E_US, <<0, 2>>)
                     \o (IF c.pix THEN Pix(1) ELSE <<>>)),
            c.magic)

\* "A-00118 "
IconCode ==
  <<Chr("A"), 45, 48, 48, 49, 49, 56, 32>>

\* Icon Image Sequence (0088,0200)
IconSeq == <<136, 512>>

\* level files: tiles of rows x cols in an image of 6 x 6, the frame count,
\* the fragments after the Basic Offset Table, with or without the optical
\* path sequence, with or without an icon image (one fragment after its
\* offset table) in an item before the pixel data of the image
LevelCases ==
  [kind : {"level"}, rows : {2, 3}, cols : {2, 3}, iw : {6}, ih : {6},
   frames : {4, 6}, frags : 0..MaxFrags, optical : BOOLEAN, icon : BOOLEAN]

LevelFile(c) ==
  FileOf(ElS(StudyUID, E_UI, <<49, 46, 50, 0>>)
           \o ElS(NFrames, E_IS, <<48 + c.frames, 32>>)
           \o ElS(Rows, E_US, LE16(c.rows))
           \o ElS(Columns, E_US, LE16(c.cols))
           \o ElS(TotalCols, E_UL, LE16(c.iw) \o <<0, 0>>)
           \o ElS(TotalRows, E_UL, LE16(c.ih) \o <<0, 0>>)
           \o (IF c.optical
               THEN SqDef(OpticalSeq,
                          ItDef(SqUndef(LensesSeq,
                                        ItUndef(ElS(CodeValue, VR("S", "H"), IconCode)))))
               ELSE <<>>)
           \o (IF c.icon
               THEN SqUndef(IconSeq, ItUndef(ElS(Rows, E_US, LE16(1)) \o Pix(1)))
               ELSE <<>>)
           \o Pix(c.frags))


---------------------------------------------------------------------------
(* The driver calls                                                        *)

RECURSIVE PushAll(_, _)
\* push_tag( push_tag( tp, t0 ), t1 ) ...
PushAll(tp, tags) ==
  IF tags = <<>> THEN tp ELSE PushAll(push_tag(tp, Head(tags)), Tail(tags))

RECURSIVE AddAll(_, _, _)
\* clear_path, push_tag..., add_tag_path with one path object tp for each
\* path of a list; [st, set]
AddAll(set, tp, paths) ==
  IF paths = <<>> THEN [st |-> "ok", set |-> set]
  ELSE LET Added(a, tp1) ==
             IF a.st # "ok" THEN a ELSE AddAll(a.set, tp1, Tail(paths))
           Built(tp1) == Added(add_tag_path(set, tp1), tp1)
       IN  Built(PushAll(clear_path(tp), Head(paths)))

\* [st, s]: fseeko to 128, "DICM"; every failure is a failed assertion
read_preamble(s) ==
  LET Sought(s0, r) ==
        IF r.got # 4 THEN [st |-> "abort", s |-> Strm(r)]
        ELSE IF Bytes(s0, 4) # <<Chr("D"), Chr("I"), Chr("C"), Chr("M")>>
             THEN [st |-> "abort", s |-> Strm(r)]
        ELSE [st |-> "true", s |-> Strm(r)]
  IN  Sought(FseekSet(s, B(128)), Fread(FseekSet(s, B(128)), 4))

\* [st, s]: the group length element, then a seek over the group
read_meta(s) ==
  LET Length(r, u) ==
        IF u.got # 4 THEN [st |-> "false", s |-> Strm(u)]
        ELSE [st |-> "true", s |-> Fseeko(Strm(u), VlOf(Bytes(r.s, 4)))]
      Header(r) ==
        IF r.ret # "true" THEN [st |-> r.ret, s |-> r.s]
        ELSE IF r.de.tag # <<2, 0>> \/ r.de.vr # E_UL \/ r.de.vl # B(4)
             THEN [st |-> "abort", s |-> r.s]
        ELSE Length(r, Fread(r.s, 4))
  IN  Header(read_explicit(De0, s))

\* !read_preamble || !read_meta: [ok, s]; a false return goes to assert(0)
Prologue(s) ==
  LET Meta(m) == [ok |-> m.st = "true", s |-> m.s]
      Preamble(p) ==
        IF p.st # "true" THEN [ok |-> FALSE, s |-> p.s]
        ELSE Meta(read_meta(p.s))
  IN  Preamble(read_preamble(s))

\* the driver call reaches read_dataset, or ends in a failed assertion
EnterDataset(set, hk, d) ==
  \E p \in {Prologue(stream)} :
      /\ tps' = set
      /\ hkind' = hk
      /\ data' = d
      /\ stream' = p.s
      /\ obs' = [Obs0 EXCEPT !.first = obs.first]
      /\ IF p.ok
         THEN /\ stack' = <<Frame("dataset", Zero, p.s.pos)>>
              /\ phase' = "walking"
              /\ outcome' = "none"
         ELSE /\ stack' = <<>>
              /\ phase' = "dead"
              /\ outcome' = "abort"
      /\ UNCHANGED <<file, input, cur_tp, caller_tp>>

\* a caller registers paths and handlers of its own and parses
ProbeBegin ==
  /\ phase = "created"
  /\ \E paths \in ProbePathSets, script \in Scripts :
       \E a \in {AddAll(tps, create_tag_path, paths)} :
         /\ a.st = "ok"
         /\ added' = added \o paths
         /\ EnterDataset(a.set, "probe", script)
  /\ UNCHANGED walker

ProbeEnd ==
  /\ phase = "walked"
  /\ hkind = "probe"
  /\ phase' = "done"
  /\ outcome' = "true"
  /\ UNCHANGED <<file, input, stream, cur_tp, tps, hkind, data, stack, walker, caller_tp,
                 added, obs>>

\* the directory the index is read for
Dirname ==
  <<Chr("D"), Chr("I"), Chr("R")>>

\* g_build_filename(dirname, name, NULL): the two joined by one separator,
\* the separators at the end of the first and at the start of the second
\* dropped, an empty name left out
Join(dir, name) ==
  LET Tail2(solid) ==
        IF solid = {} THEN dir
        ELSE dir \o <<47>> \o SubSeq(name, Min(solid), Len(name))
  IN  Tail2({i \in DOMAIN name : name[i] # 47})

\* _openslide_dicom_readindex up to read_dataset
IndexBegin ==
  /\ phase = "created"
  /\ IF tps.nsets # 0
     THEN /\ phase' = "dead"
          /\ outcome' = "abort"
          /\ UNCHANGED <<file, input, stream, cur_tp, tps, hkind, data, stack, caller_tp,
                         added, obs>>
     ELSE \E a \in {AddAll(tps, create_tag_path, << <<DirRecSeq, RefFileID>> >>)} :
            /\ a.st = "ok"
            /\ added' = Append(added, <<DirRecSeq, RefFileID>>)
            /\ EnterDataset(a.set, "index", <<>>)
  /\ UNCHANGED walker

\* _openslide_dicom_readindex after read_dataset returned true
IndexEnd ==
  /\ phase = "walked"
  /\ hkind = "index"
  /\ phase' = "done"
  /\ outcome' = "true"
  /\ data' = [i \in DOMAIN data |-> Join(Dirname, data[i])]
  /\ UNCHANGED <<file, input, stream, cur_tp, tps, hkind, stack, walker, caller_tp, added,
                 obs>>

\* the seven paths _openslide_dicom_level_init registers
LevelPaths ==
  << <<StudyUID>>, <<NFrames>>, <<Rows>>, <<Columns>>, <<TotalCols>>, <<TotalRows>>,
     <<OpticalSeq, LensesSeq, CodeValue>> >>

\* what an int that was never written reads as
JunkInts ==
  {0, 7}

\* struct dicom_info di as declared: di.tiles = NULL is all the driver
\* sets.  held is what the bytes of the handler's buffer read as where
\* nothing was stored.
Indeterminate ==
  [number_of_frames : JunkInts, rows : JunkInts, columns : JunkInts,
   total_pixel_mat_cols : JunkInts, total_pixel_mat_rows : JunkInts,
   code_value : {<<>>, IconCode}, study_instance_uid : {Fill(64, Chr("U"))},
   study_instance_uid_len : JunkInts, tiles : {[null |-> TRUE, tab |-> <<>>]},
   current_tile_num : JunkInts, held : {0, 255}]

\* _openslide_dicom_level_init up to read_dataset
LevelBegin ==
  /\ phase = "created"
  /\ \E a \in {AddAll(tps, create_tag_path, LevelPaths)}, di \in Indeterminate :
       /\ a.st = "ok"
       /\ added' = added \o LevelPaths
       /\ EnterDataset(a.set, "level", di)
  /\ UNCHANGED walker

\* C integer division truncates towards zero
CDiv(a, b) ==
  LET Quot(q) == IF (a >= 0) = (b > 0) THEN q ELSE 0 - q
      Abs(x) == IF x < 0 THEN 0 - x ELSE x
  IN  Quot(Abs(a) \div Abs(b))

CMod(a, b) ==
  a - b * CDiv(a, b)

\* (iw / tw) + !!(iw % tw)
CeilDiv(iw, tw) ==
  CDiv(iw, tw) + (IF CMod(iw, tw) # 0 THEN 1 ELSE 0)

\* _openslide_dicom_level_init after read_dataset returned true, level and
\* dicoml both given as the vendor driver gives them: [st, level, dicoml].
\* A division by zero and a copy of a length outside of the array end
\* the process.
level_geometry(di) ==
  LET Filled(tw, th, iw, ih) ==
        IF tw = 0 \/ th = 0 THEN [st |-> "abort"]
        ELSE IF CeilDiv(iw, tw) * CeilDiv(ih, th) # di.number_of_frames
        THEN [st |-> "abort"]
        ELSE IF di.study_instance_uid_len < 0 \/ di.study_instance_uid_len > 64
        THEN [st |-> "abort"]
        ELSE [st |-> "ok",
              level |-> [w |-> iw, h |-> ih, tile_w |-> tw, tile_h |-> th],
              dicoml |-> [image_w |-> iw, image_h |-> ih, tile_w |-> tw, tile_h |-> th,
                          tiles_across |-> CeilDiv(iw, tw),
                          tiles_down |-> CeilDiv(ih, th),
                          is_icon |-> CStr(di.code_value) = IconCode,
                          hash |-> CStr(SubSeq(di.study_instance_uid, 1,
                                               di.study_instance_uid_len)),
                          tiles |-> di.tiles]]
  IN  Filled(di.rows, di.columns, di.total_pixel_mat_cols, di.total_pixel_mat_rows)

LevelEnd ==
  /\ phase = "walked"
  /\ hkind = "level"
  /\ \E r \in {level_geometry(data)} :
       IF r.st = "ok"
       THEN /\ phase' = "done"
            /\ outcome' = "true"
            /\ data' = [level |-> r.level, dicoml |-> r.dicoml]
       ELSE /\ phase' = "dead"
            /\ outcome' = "abort"
            /\ data' = data
  /\ UNCHANGED <<file, input, stream, cur_tp, tps, hkind, stack, walker, caller_tp, added,
                 obs>>


---------------------------------------------------------------------------
(* The walker's steps                                                      *)

Top ==
  stack[Len(stack)]

ObserveRet(o, f, s) ==
  IF f.fn \in {"item_def", "sq_def", "item_undef", "sq_undef"}
  THEN [o EXCEPT !.ret = [valid |-> TRUE, fn |-> f.fn, entry |-> f.entry,
                          lim |-> f.lim, pos |-> s.pos]]
  ELSE IF f.fn = "epd"
  THEN [o EXCEPT !.epd = [valid |-> TRUE, items |-> f.items, reps |-> f.reps]]
  ELSE o

Apply(r) ==
  LET n == Len(stack)
  IN  /\ stream' = r.s
      /\ cur_tp' = r.tp
      /\ data' = r.d
      /\ UNCHANGED <<file, input, tps, hkind, walker, caller_tp, added>>
      /\ CASE r.st = "abort" ->
                /\ stack' = [stack EXCEPT ![n] = r.f]
                /\ phase' = "dead"
                /\ outcome' = "abort"
                /\ obs' = r.o
           [] r.st = "next" ->
                /\ stack' = [stack EXCEPT ![n] = r.f]
                /\ obs' = r.o
                /\ UNCHANGED <<phase, outcome>>
           [] r.st = "call" ->
                /\ stack' = Append([stack EXCEPT ![n] = r.f], r.child)
                /\ obs' = r.o
                /\ UNCHANGED <<phase, outcome>>
           [] r.st = "ret" ->
                /\ obs' = ObserveRet(r.o, r.f, r.s)
                /\ IF n = 1
                   THEN /\ stack' = <<>>
                        /\ phase' = "walked"
                        /\ UNCHANGED outcome
                   ELSE /\ stack' = [SubSeq(stack, 1, n - 1) EXCEPT
                                       ![n - 1].pc = "ret", ![n - 1].rv = r.rv]
                        /\ UNCHANGED <<phase, outcome>>

Running(fn) ==
  /\ phase = "walking"
  /\ stack # <<>>
  /\ Top.fn = fn

ReadDataset ==
  /\ Running("dataset")
  /\ Apply(read_dataset(Top, stream, cur_tp, data, obs))

ReadItemUndef ==
  /\ Running("item_undef")
  /\ Apply(read_item_undef(Top, stream, cur_tp, data, obs))

ReadItemDef ==
  /\ Running("item_def")
  /\ Apply(read_item_def(Top, stream, cur_tp, data, obs))

ReadSqUndef ==
  /\ Running("sq_undef")
  /\ Apply(read_sq_undef(Top, stream, cur_tp, data, obs))

ReadSqDef ==
  /\ Running("sq_def")
  /\ Apply(read_sq_def(Top, stream, cur_tp, data, obs))

ReadEpd ==
  /\ Running("epd")
  /\ Apply(read_encapsulated_pixel_data(Top, stream, cur_tp, data, obs))

WalkStep ==
  \/ ReadDataset
  \/ ReadItemUndef
  \/ ReadItemDef
  \/ ReadSqUndef
  \/ ReadSqDef
  \/ ReadEpd

\* _openslide_dicom_create: the stream is open, the path and the set are empty
Created ==
  /\ stream = [pos |-> Zero, eof |-> FALSE]
  /\ cur_tp = create_tag_path
  /\ tps = create_tag_path_set
  /\ hkind = "none"
  /\ data = <<>>
  /\ stack = <<>>
  /\ phase = "created"
  /\ outcome = "none"
  /\ walker = "skipping"
  /\ caller_tp = create_tag_path
  /\ added = <<>>
  /\ obs = Obs0

Init ==
  /\ file \in ProbeFiles
  /\ input = [kind |-> "probe"]
  /\ Created

Next ==
  \/ ProbeBegin
  \/ WalkStep
  \/ ProbeEnd

Spec == Init /\ [][Next]_vars

\* the same file, path set and handler once more, walked by the walker that
\* never skips
Rewalk ==
  /\ walker = "skipping"
  /\ hkind = "probe"
  /\ phase \in {"done", "dead"}
  /\ walker' = "descending"
  /\ cur_tp' = create_tag_path
  /\ \E p \in {Prologue([pos |-> Zero, eof |-> FALSE])} :
       /\ stream' = p.s
       /\ obs' = [Obs0 EXCEPT !.first = [valid |-> TRUE, calls |-> obs.calls,
                                         outcome |-> outcome]]
       /\ IF p.ok
          THEN /\ stack' = <<Frame("dataset", Zero, p.s.pos)>>
               /\ phase' = "walking"
               /\ outcome' = "none"
          ELSE /\ stack' = <<>>
               /\ phase' = "dead"
               /\ outcome' = "abort"
  /\ UNCHANGED <<file, input, tps, hkind, data, caller_tp, added>>

---------------------------------------------------------------------------
(* The tag path set on its own: a caller builds paths in one path object   *)
(* and adds them                                                           *)

\* tags per path object and paths per set in this specification
MaxDepth ==
  2

MaxAdds ==
  2

PathTags ==
  {DirRecSeq, RefFileID}

PathPush ==
  /\ phase = "created"
  /\ caller_tp.ntags < MaxDepth
  /\ \E t \in PathTags : caller_tp' = push_tag(caller_tp, t)
  /\ UNCHANGED <<file, input, stream, cur_tp, tps, hkind, data, stack, phase, outcome,
                 walker, added, obs>>

PathClear ==
  /\ phase = "created"
  /\ caller_tp.ntags > 0
  /\ caller_tp' = clear_path(caller_tp)
  /\ UNCHANGED <<file, input, stream, cur_tp, tps, hkind, data, stack, phase, outcome,
                 walker, added, obs>>

PathAdd ==
  /\ phase = "created"
  /\ tps.nsets < MaxAdds
  /\ \E a \in {add_tag_path(tps, caller_tp)} :
       /\ tps' = a.set
       /\ added' = Append(added, PathOf(caller_tp))
       /\ IF a.st = "ok"
          THEN UNCHANGED <<phase, outcome>>
          ELSE phase' = "dead" /\ outcome' = "abort"
  /\ UNCHANGED <<file, input, stream, cur_tp, hkind, data, stack, walker, caller_tp, obs>>

InitPath ==
  /\ file = FileOf(DsLeaves)
  /\ input = [kind |-> "probe"]
  /\ Created

NextPath ==
  \/ PathPush
  \/ PathClear
  \/ PathAdd

SpecPath == InitPath /\ [][NextPath]_vars

---------------------------------------------------------------------------
(* The index driver on directory files                                     *)

InitIndex ==
  /\ input \in IndexCases
  /\ file = IndexFile(input)
  /\ Created

NextIndex ==
  \/ IndexBegin
  \/ WalkStep
  \/ IndexEnd

SpecIndex == InitIndex /\ [][NextIndex]_vars

---------------------------------------------------------------------------
(* dicom_wsmis_open: create, the index driver, destroy                     *)
(* The instance is created in Init.  The call is over in phase "closed",   *)
(* where it returned, and in phase "dead", where the process was aborted.  *)

\* dicom_wsmis_open after _openslide_dicom_readindex returned true:
\* _openslide_dicom_destroy frees the paths and closes the file
OpenDestroy ==
  /\ phase = "done"
  /\ hkind = "index"
  /\ phase' = "closed"
  /\ UNCHANGED <<file, input, stream, cur_tp, tps, hkind, data, stack, outcome, walker,
                 caller_tp, added, obs>>

NextOpen ==
  \/ IndexBegin
  \/ WalkStep
  \/ IndexEnd
  \/ OpenDestroy

SpecOpen == InitIndex /\ [][NextOpen]_vars

---------------------------------------------------------------------------
(* The level driver on image files                                         *)

InitLevel ==
  /\ input \in LevelCases
  /\ file = LevelFile(input)
  /\ Created

NextLevel ==
  \/ LevelBegin
  \/ WalkStep
  \/ LevelEnd

SpecLevel == InitLevel /\ [][NextLevel]_vars

---------------------------------------------------------------------------
(* The level driver called again and again on one instance                 *)
(* _openslide_dicom_level_init adds its seven paths to the set of the      *)
(* instance on every call; nothing ever takes a path out of the set.       *)

\* _openslide_dicom_level_init has returned true; the instance is the
\* caller's to use again
LevelReturn ==
  /\ phase = "done"
  /\ hkind = "level"
  /\ phase' = "created"
  /\ UNCHANGED <<file, input, stream, cur_tp, tps, hkind, data, stack, outcome, walker,
                 caller_tp, added, obs>>

\* _openslide_dicom_level_init where one of its add_tag_path calls does not
\* return: on "abort" an assertion failed; on "overflow" the call writes
\* past the end of an array, which either ends the process or stores the
\* path beyond the capacity of the set
LevelFull ==
  /\ phase = "created"
  /\ \E a \in {AddAll(tps, create_tag_path, LevelPaths)} :
       /\ a.st # "ok"
       /\ \E o \in (IF a.st = "overflow" THEN {"abort", "overflow"} ELSE {"abort"}) :
            /\ outcome' = o
            /\ tps' = IF o = "overflow"
                      THEN AddWrite(a.set,
                                    PushAll(create_tag_path,
                                            LevelPaths[a.set.nsets - tps.nsets + 1]))
                      ELSE a.set
  /\ phase' = "dead"
  /\ UNCHANGED <<file, input, stream, cur_tp, hkind, data, stack, walker, caller_tp,
                 added, obs>>

\* an image the level driver reads with success
InitReuse ==
  /\ input = [kind |-> "level", rows |-> 3, cols |-> 3, iw |-> 6, ih |-> 6,
              frames |-> 4, frags |-> 2, optical |-> TRUE, icon |-> FALSE]
  /\ file = LevelFile(input)
  /\ Created

NextReuse ==
  \/ LevelBegin
  \/ WalkStep
  \/ LevelEnd
  \/ LevelReturn
  \/ LevelFull

SpecReuse == InitReuse /\ [][NextReuse]_vars

NextEquiv ==
  \/ Next
  \/ Rewalk

SpecEquiv == Init /\ [][NextEquiv]_vars

---------------------------------------------------------------------------
(* Properties                                                              *)

\* C1: whenever process_attribute returns from an element that came with a
\* value source of size L, the stream is exactly L bytes past the end of the
\* element's header, whatever the handler read or skipped.
C1_StreamAfterValue ==
  (obs.attr.valid /\ obs.attr.sourced /\ obs.attr.returned)
    => obs.attr.to = BAdd(obs.attr.from, obs.attr.L)

\* C2: whenever read_item_def(itemlen) or read_sq_def(seqlen) returns, the
\* stream stands exactly itemlen (seqlen) bytes past its position on entry.
C2_DefinedLengthAdvance ==
  (obs.ret.valid /\ obs.ret.fn \in {"item_def", "sq_def"})
    => obs.ret.pos = BAdd(obs.ret.entry, obs.ret.lim)

ExplicitScopes ==
  {"dataset", "item_def", "item_undef"}

Increasing(tags) ==
  \A j \in 1..(Len(tags) - 1) : BLt(tags[j], tags[j + 1])

LastSeen(f) ==
  IF f.seen = <<>> THEN Zero ELSE f.seen[Len(f.seen)]

\* the scope on top of the stack is about to read the header of its next
\* element, and the tag of that header is there to read
HeaderAhead ==
  /\ phase = "walking"
  /\ stack # <<>>
  /\ Top.fn \in ExplicitScopes
  /\ Top.pc = "loop"
  /\ Top.fn = "item_def" => BLt(Top.len, Top.lim)
  /\ Top.seen # <<>>
  /\ Avail(stream) >= 4

ScopesOrdered ==
  \A i \in DOMAIN stack :
    /\ Increasing(stack[i].seen)
    /\ stack[i].fn \in ExplicitScopes => stack[i].de.tag = LastSeen(stack[i])

\* C3: in every scope (the dataset, each item) the tags of the elements read
\* are strictly increasing, and the value the next tag is compared with is
\* the tag of the last element of that same scope (nothing before the first
\* element of an item, whatever nested sequences were read in between); a
\* header whose tag is not greater than it ends the parse in a failed
\* assertion.
C3_TagOrder ==
  /\ []ScopesOrdered
  /\ [][(HeaderAhead /\ ~BLt(LastSeen(Top), TagOf(Bytes(stream, 4))))
         => outcome' = "abort"]_vars

\* the second item of a sequence began with a tag lower than the last tag of
\* the first item and was read on, until a tag of its own was out of order
C3_Witness ==
  /\ outcome = "abort"
  /\ Len(stack) >= 3
  /\ Top.fn = "item_undef"
  /\ stack[Len(stack) - 1].items = 2
  /\ Len(Top.seen) = 2
  /\ Len(obs.calls) = 4
  /\ BLt(obs.calls[3].tag, obs.calls[2].tag)
  /\ ~BLt(LastSeen(Top), TagOf(SubSeq(file, Small(stream.pos) - 3, Small(stream.pos))))

\* C5: at every on_attribute invocation, at any depth, the last tag of the
\* current tag path is the tag of the element handed to the handler.
C5_PathEndsInElement ==
  \A i \in DOMAIN obs.calls :
    /\ obs.calls[i].path # <<>>
    /\ obs.calls[i].path[Len(obs.calls[i].path)] = obs.calls[i].tag

\* an invocation three levels deep, in a slot of the path that held another
\* tag before
C5_Witness ==
  \E i, j \in DOMAIN obs.calls :
    /\ j < i
    /\ Len(obs.calls[i].path) = 3
    /\ Len(obs.calls[j].path) = 3
    /\ obs.calls[i].tag # obs.calls[j].tag

\* C6: when an encapsulated pixel data element with n Item elements has been
\* read, the fragment handler has been invoked n - 1 times for it.
C6_FragmentsButFirst ==
  obs.epd.valid => obs.epd.reps = obs.epd.items - 1

Invocations(calls) ==
  {calls[i] : i \in DOMAIN calls}

\* both walks of the file returned success
BothWalked ==
  /\ walker = "descending"
  /\ phase = "done"
  /\ obs.first.valid
  /\ obs.first.outcome = "true"

\* C4: for a dataset and a path set that both walkers parse with success,
\* the set of on_attribute invocations of the walker that skips is the set
\* of invocations of the walker that descends into every defined-length
\* sequence and item.
C4_SameInvocations ==
  BothWalked => Invocations(obs.first.calls) = Invocations(obs.calls)

\* the same, counting only the invocations at registered paths
C4_SameRegisteredInvocations ==
  BothWalked => { c \in Invocations(obs.first.calls) : c.found }
                  = { c \in Invocations(obs.calls) : c.found }

\* path objects to query the set with: every path of up to MaxDepth + 1 tags
\* in an object of its own, and the caller's object as it is
Queries ==
  { [tags |-> q, ntags |-> Len(q)] :
      q \in UNION { [1..n -> PathTags] : n \in 0..(MaxDepth + 1) } }
    \cup {caller_tp}

IsPrefix(a, b) ==
  Len(a) <= Len(b) /\ SubSeq(b, 1, Len(a)) = a

\* C7 as stated: match_tag_path is true exactly when some registered path is
\* a prefix of the path asked about.
C7_RegisteredIsPrefix ==
  \A q \in Queries :
    match_tag_path(tps, q) <=> \E i \in DOMAIN added : IsPrefix(added[i], PathOf(q))

\* C7: match_tag_path is true exactly when the path asked about is a prefix
\* of some registered path: it is no longer than the registered path and
\* equals it on all of its own tags.
C7_PathIsPrefixOfRegistered ==
  \A q \in Queries :
    match_tag_path(tps, q) <=> \E i \in DOMAIN added : IsPrefix(PathOf(q), added[i])

\* a two-tag path is registered: its one-tag prefix matches, a three-tag
\* extension of it does not
C7_Witness ==
  \E i \in DOMAIN added :
    /\ Len(added[i]) = 2
    /\ match_tag_path(tps, [tags |-> SubSeq(added[i], 1, 1), ntags |-> 1])
    /\ ~match_tag_path(tps, [tags |-> Append(added[i], DirRecSeq), ntags |-> 3])

\* C8: after any adds, find_tag_path is true exactly for the paths that were
\* added; the set holds a copy of each of them, in order, whatever the caller
\* did to its path object afterwards and whatever was added later.
C8_FindIsMembership ==
  /\ tps.nsets = Len(added)
  /\ \A i \in DOMAIN added : PathOf(RefPath(tps, i)) = added[i]
  /\ \A q \in Queries :
       find_tag_path(tps, q) <=> \E i \in DOMAIN added : added[i] = PathOf(q)

\* two different paths were added from one path object, which was cleared
\* in between and still holds a tag of the longer one
C8_Witness ==
  /\ Len(added) = 2
  /\ Len(added[1]) = 2
  /\ Len(added[2]) = 1
  /\ added[2][1] # added[1][1]
  /\ caller_tp.ntags = 0
  /\ Len(caller_tp.tags) = 2
  /\ find_tag_path(tps, [tags |-> added[1], ntags |-> 2])
  /\ find_tag_path(tps, [tags |-> added[2], ntags |-> 1])

TrimTrailing(str) ==
  LET Upto(solid) == IF solid = {} THEN <<>> ELSE SubSeq(str, 1, Max(solid))
  IN  Upto({i \in DOMAIN str : str[i] # 32})

\* C10: on a directory whose Referenced File ID values under
\* (0004,1220)>(0004,1500) have at most 128 bytes, the index driver returns
\* one entry per such element, in file order: the directory joined with the
\* value, its trailing spaces removed and its backslashes turned into
\* slashes; the Referenced File ID at another path adds nothing.
C10_IndexEntries ==
  (hkind = "index" /\ input.magic = Dicm /\ phase \in {"done", "dead"})
    => /\ phase = "done"
       /\ data = [i \in DOMAIN input.vals |->
                    Join(Dirname, Slashed(TrimTrailing(input.vals[i])))]

Ceil(a, b) ==
  (a + b - 1) \div b

\* C9: the level driver returns tile_h equal to the value of Rows
\* (0028,0010) and tile_w equal to the value of Columns (0028,0011), also
\* where the two differ, and tiles_across = ceil(image_w / tile_w) and
\* tiles_down = ceil(image_h / tile_h).
C9_TileGeometry ==
  (hkind = "level" /\ phase = "done")
    => /\ data.dicoml.tile_h = input.rows
       /\ data.dicoml.tile_w = input.cols
       /\ data.dicoml.tiles_across = Ceil(data.dicoml.image_w, data.dicoml.tile_w)
       /\ data.dicoml.tiles_down = Ceil(data.dicoml.image_h, data.dicoml.tile_h)

\* C11: when bytes 128..131 of the file are not "DICM" the index driver
\* returns to its caller with an error of kind BadMagic, and no attribute
\* or fragment handler has been invoked.
C11_BadMagicReturned ==
  (hkind = "index" /\ SubSeq(file, 129, 132) # Dicm)
    => /\ phase = "failed"
       /\ outcome = "BadMagic"
       /\ obs.calls = <<>>
       /\ obs.frags = <<>>

\* C12: while a defined-length item or sequence of length L is being read,
\* the stream never stands beyond the end of that region: nothing past
\* entry + L is read or seeked over.
C12_WithinEnclosingLength ==
  \A i \in DOMAIN stack :
    stack[i].fn \in {"item_def", "sq_def"}
      => BLe(stream.pos, BAdd(stack[i].entry, stack[i].lim))

\* C13: when the file ends before the declared bytes of a defined-length
\* value are all there, the parse does not end in success, whether the
\* handler read the value or the walker seeked over it.
C13_TruncatedIsFailure ==
  (obs.attr.valid /\ obs.attr.sourced
     /\ BLt(B(FileSize), BAdd(obs.attr.from, obs.attr.L)))
    => outcome # "true"

\* C14: on every way out of dicom_wsmis_open the instance it created has
\* been destroyed and its file closed, also where the index driver failed.
C14_DestroyedOnExit ==
  phase \in {"closed", "dead"} => phase = "closed"

\* read_dataset is at the top of its loop and the header ahead is read as
\* that of a sequence of defined length whose path matches nothing registered
UnregisteredSqAhead(r) ==
  /\ r.ret = "true"
  /\ r.de.vr = E_SQ
  /\ r.de.vl # UndefLen
  /\ r.de.tag[1] # 65534
  /\ r.de.tag[1] <= 32736
  /\ cur_tp.ntags < PathSize
  /\ ~match_tag_path(tps, push_tag(cur_tp, r.de.tag))

\* the step of read_dataset over such a sequence: the stream moves by the
\* header of hdr bytes and the length of the sequence, no handler is called,
\* and read_dataset is back at the top of its loop with the path as before
PassedOver(hdr) ==
  LET Go(r) ==
        UnregisteredSqAhead(r)
          => /\ stream'.pos = BAdd(BAdd(stream.pos, B(hdr)), r.de.vl)
             /\ obs'.calls = obs.calls
             /\ obs'.frags = obs.frags
             /\ phase' = "walking"
             /\ Len(stack') = 1
             /\ stack'[1].fn = "dataset"
             /\ stack'[1].pc = "loop"
             /\ cur_tp'.ntags = cur_tp.ntags
  IN  (Running("dataset") /\ Top.pc = "loop" /\ walker = "skipping")
        => Go(read_explicit(Top.de, stream))

\* C15 (as the code has it): a top-level sequence of defined length L with
\* no registered path under it is passed over with no on_attribute call for
\* it or for anything inside it; the stream advances L + 12 bytes from the
\* start of its header (tag, VR, two reserved bytes, 32-bit length) to the
\* header of the next top-level element, which read_dataset then reads.
C15_SequencePassedOver ==
  [][PassedOver(12)]_vars

\* C15 (as stated): the same with an advance of L + 8 bytes.
C15_SequencePassedOverBy8 ==
  [][PassedOver(8)]_vars

\* a sequence of 28 bytes was passed over and the element after it delivered
C15_Witness ==
  /\ phase = "walking"
  /\ Len(stack) = 1
  /\ Top.seen = <<RefSeq, Rows>>
  /\ ~match_tag_path(tps, push_tag(create_tag_path, RefSeq))
  /\ Len(obs.calls) = 1
  /\ obs.calls[1].tag = Rows
  /\ obs.calls[1].path = <<Rows>>

\* the invocation on_attribute gets for the element de met with the path tp
InvocationOf(c, de, tp) ==
  /\ c.tag = de.tag
  /\ c.vl = de.vl
  /\ c.path = PathOf(tp) \o <<de.tag>>

\* one turn of the loop of read_item_undef
ItemUndefTurn ==
  LET n == Len(stack)
      Delimiter(r) ==
        /\ Len(stack') = n - 1
        /\ stack'[n - 1].pc = "ret"
        /\ obs'.calls = obs.calls
        /\ obs'.frags = obs.frags
        /\ stream'.pos = BAdd(stream.pos, B(8))
      Element(r) ==
        \/ /\ outcome' = "abort"
           /\ Len(obs'.calls) <= Len(obs.calls) + 1
        \/ /\ outcome' # "abort"
           /\ Len(obs'.calls) = Len(obs.calls) + 1
           /\ SubSeq(obs'.calls, 1, Len(obs.calls)) = obs.calls
           /\ InvocationOf(obs'.calls[Len(obs'.calls)], r.de, cur_tp)
           /\ stack'[n].seen = Append(Top.seen, r.de.tag)
      Go(r) ==
        IF r.ret # "true" THEN outcome' = "abort" /\ obs'.calls = obs.calls
        ELSE IF r.de.tag = ItemEndTag THEN Delimiter(r)
        ELSE Element(r)
  IN  Running("item_undef")
        => IF Top.pc = "loop" THEN Go(read_explicit_undef(Top.de, stream))
           ELSE obs'.calls = obs.calls

OwnFrags ==
  SubSeq(obs.frags, Len(obs.frags) - Top.reps + 1, Len(obs.frags))

\* they lie one behind the other, each 8 bytes after the end of the one
\* before, the first 8 bytes after the position the function was entered at
FragsChained(fr) ==
  /\ fr # <<>> => fr[1].pos = BAdd(Top.entry, B(8))
  /\ \A k \in 1..(Len(fr) - 1) :
       fr[k + 1].pos = BAdd(BAdd(fr[k].pos, fr[k].len), B(8))

EpdChained ==
  (Running("epd") /\ hkind = "probe") => FragsChained(OwnFrags)

\* one turn of the loop of read_encapsulated_pixel_data
EpdTurn ==
  LET Go(r) ==
        /\ obs'.calls = obs.calls
        /\ (r.ret = "true" /\ is_start(r.de))
             => /\ obs'.frags = Append(obs.frags, [pos |-> BAdd(stream.pos, B(8)),
                                                   len |-> r.de.vl,
                                                   item |-> Top.items + 1])
                /\ stream'.pos = BAdd(BAdd(stream.pos, B(8)), r.de.vl)
                /\ phase' = "walking"
        /\ ~(r.ret = "true" /\ is_start(r.de)) => obs'.frags = obs.frags
  IN  (Running("epd") /\ hkind = "probe")
        => Go(read_implicit([Top.de EXCEPT !.tag = Zero], stream))

\* C17: every item of an encapsulated pixel data element reported to
\* on_pixel_fragment is reported with the file position just after its
\* 8-byte header and with its VL as length; the reports come in file order,
\* each followed by a seek of VL bytes, so that the next offset is the
\* previous offset + the previous length + 8; no item gets an on_attribute
\* invocation.
C17_FragmentReports ==
  /\ []EpdChained
  /\ [][EpdTurn]_vars

\* the offset table and two fragments of 2 and 4 bytes have been reported
C17_Witness ==
  /\ Running("epd")
  /\ Top.reps = 3
  /\ Top.items = 3
  /\ Len(obs.frags) = 3
  /\ obs.frags[1].len = Zero
  /\ obs.frags[2] = [pos |-> BAdd(obs.frags[1].pos, B(8)), len |-> B(2), item |-> 2]
  /\ obs.frags[3] = [pos |-> BAdd(obs.frags[1].pos, B(18)), len |-> B(4), item |-> 3]
  /\ stream.pos = BAdd(obs.frags[3].pos, B(4))
  /\ Len(obs.calls) = 1

\* the reports of a parse that were not for the first item of their pixel
\* data element, each as the tile handle_pdi makes of it
NonBOT(frags) ==
  LET Kept == SelectSeq(frags, LAMBDA x : x.item # 1)
  IN  [k \in DOMAIN Kept |-> [start_in_file |-> Kept[k].pos, length |-> Kept[k].len]]

\* C18: after the level driver has read a file in which every encapsulated
\* pixel data element starts with a Basic Offset Table item, the tile table
\* holds, in order, the fragments that are not offset tables, that of a
\* pixel data element nested in an item before the main one included; no
\* offset table is stored as a tile and no more than number_of_frames
\* entries are written.
C18_TilesAreFragments ==
  (hkind = "level" /\ phase = "done")
    => /\ ~data.dicoml.tiles.null
       /\ data.dicoml.tiles.tab = NonBOT(obs.frags)
       /\ Len(data.dicoml.tiles.tab) <= input.frames

\* what the reader of the scope on top of the stack makes of the header ahead
HeaderRead ==
  IF Top.fn = "item_undef" THEN read_explicit_undef(Top.de, stream)
  ELSE read_explicit(Top.de, stream)

\* the dataset or an item is at the top of its loop with bytes left to read
AtElement ==
  /\ phase = "walking"
  /\ stack # <<>>
  /\ Top.fn \in ExplicitScopes
  /\ Top.pc = "loop"
  /\ Top.fn = "item_def" => BLt(Top.len, Top.lim)

\* the step on a header with VR UN and undefined length
UnUndefinedFails ==
  LET Go(r) ==
        (r.ret = "true" /\ r.de.vr = E_UN /\ r.de.vl = UndefLen)
          => /\ phase' = "dead"
             /\ outcome' = "abort"
             /\ obs'.calls = obs.calls
             /\ obs'.frags = obs.frags
             /\ Len(stack') = Len(stack)
  IN  AtElement => Go(HeaderRead)

\* C19: an element with undefined length and VR UN, at the top level or in
\* an item, ends the parse in failure: on_attribute is not invoked for it,
\* no reader is entered for it, and no handler is invoked afterwards.
C19_UnknownUndefinedFails ==
  /\ [][UnUndefinedFails]_vars
  /\ [][phase = "dead" => (phase' = "dead" /\ obs' = obs)]_vars

\* the parse ended at such an element inside an item, after the one
\* invocation for the sequence around it
C19_Witness ==
  /\ phase = "dead"
  /\ outcome = "abort"
  /\ Len(stack) = 3
  /\ Top.fn = "item_undef"
  /\ Top.de = [tag |-> RefFileID, vr |-> E_UN, vl |-> UndefLen]
  /\ Len(obs.calls) = 1
  /\ obs.calls[1].tag = DirRecSeq

\* the step of an item on the header of a sequence of defined length, as at
\* the top level: into read_sq_def where the path matches the registered
\* set, past the sequence where it does not
ItemSqAsTopLevel ==
  LET n == Len(stack)
      Go(r) ==
        (r.ret = "true" /\ r.de.vr = E_SQ /\ r.de.vl # UndefLen
           /\ cur_tp.ntags < PathSize)
          => IF match_tag_path(tps, push_tag(cur_tp, r.de.tag))
             THEN /\ Len(stack') = n + 1
                  /\ stack'[n + 1].fn = "sq_def"
                  /\ stack'[n + 1].lim = r.de.vl
             ELSE /\ Len(stack') = n
                  /\ stream'.pos = BAdd(r.s.pos, r.de.vl)
  IN  (AtElement /\ Top.fn \in {"item_undef", "item_def"}) => Go(HeaderRead)

\* C20: a sequence of defined length met inside an item, of defined or of
\* undefined length, is handled as at the top level: where the current path
\* matches the registered set the walker enters it with read_sq_def, so that
\* the elements below it reach on_attribute with their full path; otherwise
\* it is seeked past.
C20_SequenceInItem ==
  [][ItemSqAsTopLevel]_vars

Upper(b) ==
  b >= 65 /\ b <= 90

\* read_explicit on the header ahead, against the bytes of the file: hd is
\* what is left of the file at the position, at most 12 bytes of it
ExplicitOnBytes(de, s, r, hd) ==
  LET n == Len(hd)
      vr == SubSeq(hd, 5, 6)
      short == vr \in ShortVRs
  IN  /\ r.ret = "true"
           => /\ r.de.tag = TagOf(SubSeq(hd, 1, 4))
              /\ r.de.vr = vr
              /\ Upper(vr[1]) /\ Upper(vr[2])
              /\ IF short
                 THEN /\ r.s.pos = BAdd(s.pos, B(8))
                      /\ r.de.vl = <<0, U16(SubSeq(hd, 7, 8))>>
                 ELSE /\ r.s.pos = BAdd(s.pos, B(12))
                      /\ SubSeq(hd, 7, 8) = <<0, 0>>
                      /\ r.de.vl = VlOf(SubSeq(hd, 9, 12))
      /\ (n >= 6 /\ ~(Upper(vr[1]) /\ Upper(vr[2]))) => r.ret = "false"
      /\ (n >= 8 /\ Upper(vr[1]) /\ Upper(vr[2]) /\ ~short
            /\ SubSeq(hd, 7, 8) # <<0, 0>>) => r.ret = "false"
      /\ (n >= 8 /\ short) => r.ret = "true"
      /\ (n >= 12 /\ Upper(vr[1]) /\ Upper(vr[2]) /\ SubSeq(hd, 7, 8) = <<0, 0>>)
           => r.ret = "true"
      /\ r.ret = "false" => r.de = de

\* the dataset or a defined-length item is about to call read_explicit on a
\* header whose tag is in order
ExplicitAhead ==
  /\ AtElement
  /\ Top.fn \in {"dataset", "item_def"}
  /\ Avail(stream) >= 4 => BLt(Top.de.tag, TagOf(Bytes(stream, 4)))

\* C21: read_explicit consumes 8 header bytes and takes the 16-bit length
\* for the short-length VRs, 12 header bytes and the 32-bit length for every
\* other pair of uppercase letters, known to the parser or not; it returns
\* false on a VR byte that is no uppercase letter and on a non-zero
\* reserved word, and on every false return the caller's data element is as
\* it was.
C21_ExplicitHeader ==
  ExplicitAhead
    => ExplicitOnBytes(Top.de, stream, read_explicit(Top.de, stream),
                       Bytes(stream, Min({12, Avail(stream)})))

\* an element with the VR "ZZ" has been read with a 12-byte header and
\* handed over with its 32-bit length of 2
C21_Witness ==
  /\ phase = "walking"
  /\ Len(stack) = 1
  /\ Top.de = [tag |-> Rows, vr |-> VR("Z", "Z"), vl |-> B(2)]
  /\ Len(obs.calls) = 1
  /\ obs.calls[1].vl = B(2)
  /\ obs.attr.from = BAdd(Top.entry, B(12))

\* one turn of the loop of read_sq_undef or read_encapsulated_pixel_data on
\* the header r: the function returns only on a Sequence Delimitation with
\* VL 0, and then the length it returns is what the stream has moved since
\* it was entered; any header but an Item or that delimiter, and no header
\* at all, ends the parse
DelimitedTurn ==
  LET n == Len(stack)
      Returns == phase' = "walking" /\ Len(stack') = n - 1
      Go(r) ==
        /\ Returns
             => /\ r.ret = "true"
                /\ r.de.tag = SqEndTag
                /\ r.de.vl = Zero
                /\ stream'.pos = BAdd(stream.pos, B(8))
                /\ stack'[n - 1].rv = BSub(stream'.pos, Top.entry)
        /\ (r.ret # "true" \/ r.de.tag \notin {ItemTag, SqEndTag}
              \/ (r.de.tag = SqEndTag /\ r.de.vl # Zero))
             => outcome' = "abort"
  IN  (phase = "walking" /\ stack # <<>> /\ Top.fn \in {"sq_undef", "epd"}
         /\ Top.pc = "loop")
        => Go(read_implicit([Top.de EXCEPT !.tag = Zero], stream))

\* C22: read_sq_undef and read_encapsulated_pixel_data return only after a
\* Sequence Delimitation (FFFE,E0DD) with VL 0 read at their own level, and
\* the length they return is the number of bytes consumed, the 8 bytes of
\* the delimiter included; any other tag but Item at that position, a
\* delimiter with a VL other than 0 and the end of the file before the
\* delimiter end the parse in failure.
C22_SequenceDelimited ==
  [][DelimitedTurn]_vars

\* C23: read_dataset returns success exactly when read_explicit stops with
\* nothing left to read, at the end of the file on an element boundary; a
\* header with invalid VR bytes, with a non-zero reserved word or cut off by
\* the end of the file is a failed parse, never a success.
C23_SuccessAtCleanEnd ==
  [][(Running("dataset") /\ Top.pc = "loop")
       => (phase' = "walked" <=> Avail(stream) = 0)]_vars

\* the sequence elements around the scope on top of the stack: one for each
\* call of a sequence reader; the calls of the item readers add none
SqDepth ==
  Cardinality({i \in DOMAIN stack : stack[i].fn \in {"sq_undef", "sq_def"}})

\* the elements being processed: one for each dataset or item scope that is
\* past push_tag and short of pop_tag
OpenElements ==
  Cardinality({i \in DOMAIN stack : stack[i].fn \in ExplicitScopes
                                      /\ stack[i].pc # "loop"})

PathBalanced ==
  /\ cur_tp.ntags >= 0
  /\ cur_tp.ntags <= PathSize
  /\ phase = "walking" => cur_tp.ntags = OpenElements
  /\ phase \in {"walked", "done"} => cur_tp.ntags = 0

\* a step that invokes on_attribute does so with a path of 1 tag more than
\* there are sequence elements around the element
InvokedAtDepth ==
  Len(obs'.calls) = Len(obs.calls) + 1
    => Len(obs'.calls[Len(obs'.calls)].path) = 1 + SqDepth

\* C24: pushes and pops on the current path are balanced.  At every
\* on_attribute invocation the path has 1 tag more than there are enclosing
\* sequence elements, items adding none; its length is never negative and
\* never above 16; after a parse that returned success it is empty, which
\* is what a second parse on the instance starts from.
C24_PathBalanced ==
  /\ []PathBalanced
  /\ [][InvokedAtDepth]_vars

\* a parse has returned success with an empty path after an invocation
\* inside 15 nested sequences, made with a path of 16 tags
C24_Witness ==
  /\ phase = "done"
  /\ outcome = "true"
  /\ cur_tp.ntags = 0
  /\ Len(cur_tp.tags) = PathSize
  /\ Len(obs.calls) = PathSize
  /\ Len(obs.calls[PathSize].path) = PathSize

\* the readers that keep a running byte count
Counting ==
  {"item_def", "item_undef", "sq_def", "sq_undef", "epd"}

\* one turn of the loop of such a reader on a header r with a declared
\* length: the count grows by the bytes of the header and the length, as
\* natural numbers
CountTurn ==
  LET n == Len(stack)
      Go(r) ==
        (r.ret = "true" /\ r.de.vl # UndefLen /\ phase' = "walking"
           /\ Len(stack') >= n)
          => stack'[n].len = BAdd(Top.len, BAdd(BSub(r.s.pos, stream.pos), r.de.vl))
  IN  (phase = "walking" /\ stack # <<>> /\ Top.fn \in Counting /\ Top.pc = "loop")
        => Go(IF Top.fn = "item_def" THEN read_explicit(Top.de, stream)
              ELSE IF Top.fn = "item_undef" THEN read_explicit_undef(Top.de, stream)
              ELSE read_implicit([Top.de EXCEPT !.tag = Zero], stream))

\* C25: the 32-bit byte counts of read_item_def, read_sq_def,
\* read_item_undef, read_sq_undef and read_encapsulated_pixel_data are the
\* true numbers of bytes: for every declared length up to 2^32 - 2 the
\* header size plus the length is added without wrapping modulo 2^32, so a
\* child longer than the enclosing defined length never brings the count
\* back to or below that length.
C25_CountsDoNotWrap ==
  [][CountTurn]_vars

\* C26: whatever driver calls and add calls were made on an instance, its
\* tag path set holds at most 16 paths and at most 512 tags, and no add has
\* written a length or a tag outside these capacities: a call that would
\* exceed one fails instead of writing.
C26_SetWithinCapacity ==
  /\ tps.nsets <= SetPaths
  /\ Len(tps.ntags) <= SetPaths
  /\ Len(tps.tags) <= SetSize
  /\ outcome # "overflow"

=============================================================================
